---- MODULE Spec2Model ----
(***************************************************************************)
(* Matching engine of the exchange: BookManagerAdapter and its helpers.    *)
(* The engine state is the adapter's fields; one action per public method. *)
(***************************************************************************)
EXTENDS Integers, Sequences, FiniteSets, TLC

(* ---------------------------------------------------------------------- *)
(* Bounds of the model                                                     *)
(* ---------------------------------------------------------------------- *)
MaxOrders == 3
MaxTicks == 2
MaxTime == 2
U64Bits == 4
ChannelCapacity == 1

(* ---------------------------------------------------------------------- *)
(* Inputs                                                                  *)
(* ---------------------------------------------------------------------- *)
Markets == {"A", "B"}
Users == {"u1", "u2"}
Sides == {"Buy", "Sell"}
SizeLots == {2, 5}

\* Market struct handed to the adapter by its callers (make_btc_market /
\* make_eth_market), scaled down.
MarketOf(m) ==
    IF m = "A"
    THEN [id |-> "A", tick_size |-> 2, lot_size |-> 2, min_size |-> 4]
    ELSE [id |-> "B", tick_size |-> 3, lot_size |-> 2, min_size |-> 2]

\* make_order: a fresh order, Pending, nothing filled.
make_order(id, m, user, side, type, price, size, t) ==
    [id |-> id, user_address |-> user, market_id |-> m, price |-> price,
     size |-> size, side |-> side, order_type |-> type, status |-> "Pending",
     filled_size |-> 0, created_at |-> t]

NoOrder == [id |-> 0]

\* Limit orders a caller may submit on market m under id `id`.
LimitOrders(id, m) ==
    { make_order(id, m, u, s, "Limit", tk * MarketOf(m).tick_size,
                 l * MarketOf(m).lot_size, t) :
        u \in Users, s \in Sides, tk \in 1..MaxTicks,
        l \in SizeLots, t \in 1..MaxTime }

\* Market orders: callers leave the price 0; they are the newest orders.
MarketOrders(id, m) ==
    { make_order(id, m, u, s, "Market", 0, l * MarketOf(m).lot_size, MaxTime) :
        u \in Users, s \in Sides, l \in SizeLots }

\* An order that arrives completely filled.
FilledOrders(id, m) ==
    { [make_order(id, m, "u1", "Buy", "Limit", MarketOf(m).tick_size,
                  2 * MarketOf(m).lot_size, 1)
        EXCEPT !.filled_size = 2 * MarketOf(m).lot_size] }

(* ---------------------------------------------------------------------- *)
(* Maps (HashMap / DashMap)                                                *)
(* ---------------------------------------------------------------------- *)
EmptyMap == [x \in {} |-> 0]
Put(f, k, v) == [x \in (DOMAIN f) \cup {k} |-> IF x = k THEN v ELSE f[x]]
\* A remove that removes nothing.
Del_Keep(f, k) == f
Del(f, k) == [x \in (DOMAIN f) \ {k} |-> f[x]]
Has(f, k) == k \in DOMAIN f

Min(a, b) == IF a <= b THEN a ELSE b
\* u128::saturating_sub
saturating_sub(a, b) == IF a >= b THEN a - b ELSE 0

RECURSIVE SumSizes(_)
SumSizes(s) == IF s = <<>> THEN 0 ELSE Head(s).size + SumSizes(Tail(s))

(* ---------------------------------------------------------------------- *)
(* PriceConverter                                                          *)
(* ---------------------------------------------------------------------- *)
\* `as u64` keeps the low 64 bits; the model scales the width down to
\* U64Bits bits (the 128-bit domain values to twice that).
U64 == 2 ^ U64Bits
price_to_ticks(c, price) == (price \div c.tick_size) % U64
ticks_to_price(c, ticks) == ticks * c.tick_size
size_to_lots(c, size) == (size \div c.lot_size) % U64
lots_to_size(c, lots) == lots * c.lot_size

(* ---------------------------------------------------------------------- *)
(* State                                                                   *)
(* ---------------------------------------------------------------------- *)
VARIABLES
    books,           \* manager: symbols that have a book in BookManagerTokio
    ob,              \* manager: market -> (order id -> resting entry) of OrderBook-rs
    market_configs,  \* market -> MarketConfig
    uuid_to_market,  \* order id -> market id
    order_storage,   \* market -> (order id -> Order)
    event_tx,        \* TRUE iff the adapter was built with_event_tx
    port,            \* the broadcast channel behind event_tx: "receiver" (a
                     \* subscriber that keeps up), "no_receiver", "lagging"
    events,          \* what the latest call sent on event_tx, in order (the
                     \* receiver has taken what earlier calls sent)
    nextId,          \* next unused order id (ids are generated by the caller)
    terminal,        \* order id -> "Filled" | "Cancelled", once it left the book that way
    last,            \* the last completed call: its arguments, the state it saw, its result
    tasks,           \* concurrent calls in flight: task -> the call and where it stands
    mgr,             \* task holding the manager RwLock for writing, 0 if none
    cfg_guards,      \* tasks holding a read guard on a market_configs entry
    st_guard,        \* task holding the write guard on an order_storage entry, 0 if none
    base             \* the adapter's fields when the concurrent calls were spawned

engine == <<books, ob, market_configs, uuid_to_market, order_storage, events>>
conc == <<tasks, mgr, cfg_guards, st_guard, base>>
vars == <<books, ob, market_configs, uuid_to_market, order_storage, event_tx,
          port, events, nextId, terminal, last, conc>>

\* The adapter's fields as one value, for the methods below.
Eng == [books |-> books, ob |-> ob, market_configs |-> market_configs,
        uuid_to_market |-> uuid_to_market, order_storage |-> order_storage,
        event_tx |-> event_tx, port |-> port, events |-> <<>>,
        written |-> EmptyMap, terminal |-> terminal]

SetEng(e) ==
    /\ books' = e.books
    /\ ob' = e.ob
    /\ market_configs' = e.market_configs
    /\ uuid_to_market' = e.uuid_to_market
    /\ order_storage' = e.order_storage
    /\ event_tx' = e.event_tx
    /\ port' = e.port
    /\ events' = e.events
    /\ terminal' = e.terminal

\* BookManagerAdapter::with_event_tx / BookManagerAdapter::new
NewEng(tx) == [books |-> {}, ob |-> EmptyMap, market_configs |-> EmptyMap,
               uuid_to_market |-> EmptyMap, order_storage |-> EmptyMap,
               event_tx |-> tx, port |-> "receiver", events |-> <<>>,
               written |-> EmptyMap, terminal |-> EmptyMap]

\* The record of a call: `pre` is the market's order storage the call found,
\* `written` maps an order id to the filled_size update_order_fill wrote into
\* the order during the call (and during the match_order before an
\* apply_trades), `target` says what a cancel_order was aimed at.  Calls that
\* return nothing leave the empty record.  `pre_index` and `pre_ob` are the
\* index and the OrderBook-rs books a match_order found (`pre_index` also the
\* index a cancel_all_orders found), `undoes` says that a
\* cancel_order was aimed at the taker the placement before it had rested
\* without a fill.
NoCall == [op |-> "none", taker |-> NoOrder, matches |-> <<>>,
           pre |-> EmptyMap, written |-> EmptyMap, result |-> "Ok",
           target |-> "", pre_index |-> EmptyMap, pre_ob |-> EmptyMap,
           undoes |-> FALSE]

InitEng(e) ==
    /\ books = e.books
    /\ ob = e.ob
    /\ market_configs = e.market_configs
    /\ uuid_to_market = e.uuid_to_market
    /\ order_storage = e.order_storage
    /\ event_tx = e.event_tx
    /\ port = e.port
    /\ events = e.events
    /\ terminal = e.terminal

Init ==
    /\ InitEng(NewEng(TRUE))
    /\ nextId = 1
    /\ last = NoCall
    /\ tasks = <<>>
    /\ mgr = 0
    /\ cfg_guards = {}
    /\ st_guard = 0
    /\ base = NewEng(TRUE)

(* ---------------------------------------------------------------------- *)
(* init_market                                                             *)
(* ---------------------------------------------------------------------- *)
\* An init_market that starts the market's order storage afresh.
init_market_Reset(e, market) ==
    [e EXCEPT
        !.books = @ \cup {market.id},
        !.ob = IF Has(@, market.id) THEN @ ELSE Put(@, market.id, EmptyMap),
        !.market_configs = Put(@, market.id,
            [tick_size |-> market.tick_size, lot_size |-> market.lot_size]),
        !.order_storage = Put(@, market.id, EmptyMap)]

init_market(e, market) ==
    [e EXCEPT
        !.books = @ \cup {market.id},
        !.ob = IF Has(@, market.id) THEN @ ELSE Put(@, market.id, EmptyMap),
        !.market_configs = Put(@, market.id,
            [tick_size |-> market.tick_size, lot_size |-> market.lot_size]),
        !.order_storage = IF Has(@, market.id) THEN @
                          ELSE Put(@, market.id, EmptyMap)]

(* ---------------------------------------------------------------------- *)
(* add_order                                                               *)
(* ---------------------------------------------------------------------- *)
\* OrderBook-rs add_limit_order as the adapter uses it: the entry rests under
\* the order's id with its price in ticks and its remaining size in lots.
add_limit_order(book, id, ob_price, ob_size, ob_side) ==
    IF Has(book, id) THEN book
    ELSE Put(book, id, [price |-> ob_price, quantity |-> ob_size, side |-> ob_side])

\* An add_order that forgets the UUID index.
add_order_NoIndex(e0, market, order) ==
    LET e == init_market(e0, market)
        config == e.market_configs[market.id]
        remaining_size == saturating_sub(order.size, order.filled_size)
    IN  IF remaining_size = 0 THEN e
        ELSE [e EXCEPT
                !.order_storage[market.id] = Put(@, order.id, order),
                !.ob[market.id] = add_limit_order(@, order.id,
                    price_to_ticks(config, order.price),
                    size_to_lots(config, remaining_size), order.side)]

\* An add_order that does not look at what remains.
nothing_remains_Never(order) == FALSE

\* "if remaining_size == 0 { return; }"
nothing_remains(order) == saturating_sub(order.size, order.filled_size) = 0

add_order(e0, market, order) ==
    LET e == init_market(e0, market)
        config == e.market_configs[market.id]
        remaining_size == saturating_sub(order.size, order.filled_size)
    IN  IF nothing_remains(order) THEN e
        ELSE [e EXCEPT
                !.uuid_to_market = Put(@, order.id, market.id),
                !.order_storage[market.id] = Put(@, order.id, order),
                !.ob[market.id] = add_limit_order(@, order.id,
                    price_to_ticks(config, order.price),
                    size_to_lots(config, remaining_size), order.side)]

(* ---------------------------------------------------------------------- *)
(* update_order_fill                                                       *)
(* ---------------------------------------------------------------------- *)
\* A book whose cancel_order does nothing.
book_cancel_order_Noop(book, id) == book

\* OrderBook-rs cancel_order: the entry leaves the book; unknown ids are ignored.
book_cancel_order(book, id) == Del(book, id)

\* An update that marks the order Filled but leaves it where it is.
update_order_fill_NoRemove(e, order_id, fill_size) ==
    IF ~Has(e.uuid_to_market, order_id) THEN e
    ELSE
    LET market_id == e.uuid_to_market[order_id] IN
    IF ~Has(e.order_storage, market_id) THEN e
    ELSE IF ~Has(e.order_storage[market_id], order_id) THEN e
    ELSE
    LET order == e.order_storage[market_id][order_id]
        filled == order.filled_size + fill_size
    IN  IF filled >= order.size
        THEN [e EXCEPT
                !.order_storage[market_id][order_id].filled_size = filled,
                !.order_storage[market_id][order_id].status = "Filled",
                !.written = Put(@, order_id, filled),
                !.terminal = Put(@, order_id, "Filled")]
        ELSE [e EXCEPT
                !.order_storage[market_id][order_id].filled_size = filled,
                !.written = Put(@, order_id, filled)]

\* update_order_fill finds the order (index, then storage).
fill_finds(e, order_id) ==
    /\ Has(e.uuid_to_market, order_id)
    /\ Has(e.order_storage, e.uuid_to_market[order_id])
    /\ Has(e.order_storage[e.uuid_to_market[order_id]], order_id)

\* "if order.filled_size >= order.size": the fill completes the order.
fill_completes(e, order_id, fill_size) ==
    /\ fill_finds(e, order_id)
    /\ LET order == e.order_storage[e.uuid_to_market[order_id]][order_id]
       IN  order.filled_size + fill_size >= order.size

\* update_order_fill up to the point where it asks for the manager lock: the
\* part done under the order_storage entry guard.
fill_in_storage(e, order_id, fill_size) ==
    IF ~fill_finds(e, order_id) THEN e
    ELSE
    LET market_id == e.uuid_to_market[order_id]
        order == e.order_storage[market_id][order_id]
        filled == order.filled_size + fill_size
    IN  IF filled >= order.size
        THEN [e EXCEPT
                !.order_storage[market_id] = Del(@, order_id),
                !.uuid_to_market = Del(@, order_id),
                !.written = Put(@, order_id, filled),
                !.terminal = Put(@, order_id, "Filled")]
        ELSE [e EXCEPT
                !.order_storage[market_id][order_id].filled_size = filled,
                !.written = Put(@, order_id, filled)]

\* "Also remove from OrderBook-rs", once the manager lock is held.
fill_in_book(e, market_id, order_id) ==
    [e EXCEPT !.ob = IF Has(@, market_id)
                     THEN [@ EXCEPT ![market_id] = book_cancel_order(@, order_id)]
                     ELSE @]

update_order_fill(e, order_id, fill_size) ==
    IF fill_completes(e, order_id, fill_size)
    THEN fill_in_book(fill_in_storage(e, order_id, fill_size),
                      e.uuid_to_market[order_id], order_id)
    ELSE fill_in_storage(e, order_id, fill_size)

(* ---------------------------------------------------------------------- *)
(* match_order                                                             *)
(* ---------------------------------------------------------------------- *)
OppositeSide(side) == IF side = "Buy" THEN "Sell" ELSE "Buy"

\* The filter of match_order: resting orders of the opposite side with
\* remaining size.
OppositeOrders(market_orders, taker_order) ==
    { market_orders[i] : i \in
        { j \in DOMAIN market_orders :
            /\ market_orders[j].side = OppositeSide(taker_order.side)
            /\ market_orders[j].size > market_orders[j].filled_size } }

\* A comparator that forgets created_at.
PriorityLeq_PriceOnly(taker_side, a, b) ==
    IF a.price # b.price
    THEN (IF taker_side = "Buy" THEN a.price < b.price ELSE a.price > b.price)
    ELSE TRUE

\* The comparator of the sort: a may stand before b.
PriorityLeq(taker_side, a, b) ==
    IF a.price # b.price
    THEN (IF taker_side = "Buy" THEN a.price < b.price ELSE a.price > b.price)
    ELSE a.created_at <= b.created_at

\* sort_by is stable and the HashMap iterates in no particular order: every
\* arrangement the comparator accepts can come out.
SortedArrangements(S, taker_side) ==
    { q \in [1..Cardinality(S) -> S] :
        /\ \A i, j \in 1..Cardinality(S) : i # j => q[i] # q[j]
        /\ \A i, j \in 1..Cardinality(S) :
              i < j => PriorityLeq(taker_side, q[i], q[j]) }

\* A gate that lets every maker through.
can_match_Always(taker_order, maker_order) == TRUE

\* Check price compatibility
can_match(taker_order, maker_order) ==
    IF taker_order.order_type = "Market" THEN TRUE
    ELSE IF taker_order.side = "Buy" THEN taker_order.price >= maker_order.price
    ELSE taker_order.price <= maker_order.price

\* A filter that skips nobody.
is_self_trade_Never(taker_order, maker_order) == FALSE

\* Skip self-trading
is_self_trade(taker_order, maker_order) ==
    maker_order.user_address = taker_order.user_address

\* A match recorded at the taker's price.
match_price_Taker(taker_order, maker_order) == taker_order.price

\* The price a match is recorded at.
match_price(taker_order, maker_order) == maker_order.price

\* A matching loop that stops at the taker's own order.
RECURSIVE MatchLoop_StopAtSelf(_, _, _)
MatchLoop_StopAtSelf(opposite_orders, taker_order, remaining_size) ==
    IF opposite_orders = <<>> \/ remaining_size = 0 THEN <<>>
    ELSE
    LET maker_order == Head(opposite_orders) IN
    IF ~can_match(taker_order, maker_order) THEN <<>>
    ELSE IF is_self_trade(taker_order, maker_order) THEN <<>>
    ELSE
    LET maker_remaining == saturating_sub(maker_order.size, maker_order.filled_size)
        match_size == Min(remaining_size, maker_remaining)
    IN  <<[maker_order |-> maker_order,
           price |-> match_price(taker_order, maker_order),
           size |-> match_size]>>
        \o MatchLoop_StopAtSelf(Tail(opposite_orders), taker_order,
                                remaining_size - match_size)

\* The matching loop over the sorted makers.
RECURSIVE MatchLoop(_, _, _)
MatchLoop(opposite_orders, taker_order, remaining_size) ==
    IF opposite_orders = <<>> \/ remaining_size = 0 THEN <<>>
    ELSE
    LET maker_order == Head(opposite_orders) IN
    IF ~can_match(taker_order, maker_order) THEN <<>>
    ELSE IF is_self_trade(taker_order, maker_order)
    THEN MatchLoop(Tail(opposite_orders), taker_order, remaining_size)
    ELSE
    LET maker_remaining == saturating_sub(maker_order.size, maker_order.filled_size)
        match_size == Min(remaining_size, maker_remaining)
    IN  <<[maker_order |-> maker_order,
           price |-> match_price(taker_order, maker_order),
           size |-> match_size]>>
        \o MatchLoop(Tail(opposite_orders), taker_order, remaining_size - match_size)

\* Trade parties that always take the taker for the buyer.
TradeParties_TakerBuys(taker_order, maker_order) ==
    [buyer_address |-> taker_order.user_address,
     seller_address |-> maker_order.user_address,
     buyer_order_id |-> taker_order.id,
     seller_order_id |-> maker_order.id]

\* Buyer and seller of a trade, by the taker's side.
TradeParties(taker_order, maker_order) ==
    IF taker_order.side = "Buy"
    THEN [buyer_address |-> taker_order.user_address,
          seller_address |-> maker_order.user_address,
          buyer_order_id |-> taker_order.id,
          seller_order_id |-> maker_order.id]
    ELSE [buyer_address |-> maker_order.user_address,
          seller_address |-> taker_order.user_address,
          buyer_order_id |-> maker_order.id,
          seller_order_id |-> taker_order.id]

\* The price of the Trade that match_order sends for a match.
event_price(taker_order, maker_order) == maker_order.price

\* The TradeExecuted event match_order sends for one match.
TradeEvent(market_id, taker_order, m) ==
    LET p == TradeParties(taker_order, m.maker_order) IN
    [type |-> "TradeExecuted",
     trade |-> [market_id |-> market_id,
                buyer_address |-> p.buyer_address,
                seller_address |-> p.seller_address,
                buyer_order_id |-> p.buyer_order_id,
                seller_order_id |-> p.seller_order_id,
                price |-> event_price(taker_order, m.maker_order),
                size |-> m.size, side |-> taker_order.side]]

\* A match_order that sends its events only after the loop, last match first.
RECURSIVE TradeEvents_Reversed(_, _, _)
TradeEvents_Reversed(market_id, taker_order, matches) ==
    IF matches = <<>> THEN <<>>
    ELSE TradeEvents_Reversed(market_id, taker_order, Tail(matches))
         \o <<TradeEvent(market_id, taker_order, Head(matches))>>

RECURSIVE TradeEvents(_, _, _)
TradeEvents(market_id, taker_order, matches) ==
    IF matches = <<>> THEN <<>>
    ELSE <<TradeEvent(market_id, taker_order, Head(matches))>>
         \o TradeEvents(market_id, taker_order, Tail(matches))

\* Executor::execute: one Trade per match, at the match's price and size.
TradeOf(taker_order, m) ==
    LET p == TradeParties(taker_order, m.maker_order) IN
    [market_id |-> taker_order.market_id,
     buyer_address |-> p.buyer_address,
     seller_address |-> p.seller_address,
     buyer_order_id |-> p.buyer_order_id,
     seller_order_id |-> p.seller_order_id,
     price |-> m.price, size |-> m.size]

RECURSIVE TradesOf(_, _)
TradesOf(taker_order, matches) ==
    IF matches = <<>> THEN <<>>
    ELSE <<TradeOf(taker_order, Head(matches))>>
         \o TradesOf(taker_order, Tail(matches))

\* Executor::execute, "Update taker order fill status": the status written
\* for the taker; with no match execute returns before writing anything.
taker_status(taker_order, matches) ==
    LET taker_new_filled == taker_order.filled_size + SumSizes(matches) IN
    IF matches = <<>> THEN taker_order.status
    ELSE IF taker_new_filled >= taker_order.size THEN "Filled"
    ELSE IF taker_new_filled > 0 THEN "PartiallyFilled"
    ELSE "Pending"

\* "Update maker orders' fill amounts": update_order_fill for each match.
RECURSIVE FillMakers(_, _)
FillMakers(e, matches) ==
    IF matches = <<>> THEN e
    ELSE FillMakers(update_order_fill(e, Head(matches).maker_order.id,
                                      Head(matches).size),
                    Tail(matches))

\* The matches match_order computes when the sort leaves the makers in the
\* arrangement `opposite_orders`.
compute_matches(e, market, taker_order, opposite_orders) ==
    IF ~Has(e.market_configs, market.id) \/ ~Has(e.order_storage, market.id)
    THEN <<>>
    ELSE MatchLoop(opposite_orders, taker_order,
                   saturating_sub(taker_order.size, taker_order.filled_size))

\* The states the broadcast channel behind event_tx can be in.
Ports == {"receiver", "no_receiver", "lagging"}

\* What a subscriber can still receive of the events a call sent: all of them
\* when it keeps up; none when there is no receiver (send returns Err and the
\* value is dropped); the newest ChannelCapacity when it lags (the channel
\* overwrites the oldest values).
delivered(p, evs) ==
    IF p = "receiver" THEN evs
    ELSE IF p = "no_receiver" THEN <<>>
    ELSE IF Len(evs) <= ChannelCapacity THEN evs
    ELSE SubSeq(evs, Len(evs) - ChannelCapacity + 1, Len(evs))

\* A match_order that gives up, before it fills a maker, when a send failed.
match_order_FailOnSend(e, market, taker_order, matches) ==
    IF e.event_tx /\ e.port = "no_receiver" /\ matches # <<>>
    THEN e
    ELSE FillMakers(
            IF e.event_tx
            THEN [e EXCEPT !.events = @ \o delivered(e.port,
                        TradeEvents(market.id, taker_order, matches))]
            ELSE e,
            matches)

\* The state match_order leaves, given the matches it computed: the result of
\* `let _ = event_tx.send(..)` is dropped.
match_order(e, market, taker_order, matches) ==
    LET sent == IF e.event_tx
                THEN [e EXCEPT !.events = @ \o delivered(e.port,
                        TradeEvents(market.id, taker_order, matches))]
                ELSE e
    IN  FillMakers(sent, matches)

\* A match_order that gathers the opposite orders of every market.
Arrangements_AllMarkets(e, market, taker_order) ==
    IF ~Has(e.order_storage, market.id) THEN {<<>>}
    ELSE SortedArrangements(
            UNION { OppositeOrders(e.order_storage[m], taker_order) :
                      m \in DOMAIN e.order_storage },
            taker_order.side)

\* The arrangements match_order can iterate for this taker.
Arrangements(e, market, taker_order) ==
    IF ~Has(e.order_storage, market.id) THEN {<<>>}
    ELSE SortedArrangements(OppositeOrders(e.order_storage[market.id], taker_order),
                            taker_order.side)

(* ---------------------------------------------------------------------- *)
(* apply_trades                                                            *)
(* ---------------------------------------------------------------------- *)
RECURSIVE FillTrades(_, _, _)
FillTrades(e, taker_order, trades) ==
    IF trades = <<>> THEN e
    ELSE FillTrades(
            update_order_fill(e,
                IF taker_order.side = "Buy" THEN Head(trades).seller_order_id
                ELSE Head(trades).buyer_order_id,
                Head(trades).size),
            taker_order, Tail(trades))

\* The status apply_trades gives the rested remainder.
remaining_status(total_matched) ==
    IF total_matched > 0 THEN "PartiallyFilled" ELSE "Pending"

\* An apply_trades that rests every remainder.
should_rest_Positive(remaining_size, market) == remaining_size > 0

\* "Add taker order to book if not fully filled"
should_rest(remaining_size, market) ==
    remaining_size > 0 /\ remaining_size >= market.min_size

apply_trades(e0, taker_order, trades, market) ==
    LET e == FillTrades(e0, taker_order, trades)
        total_matched == SumSizes(trades)
        remaining_size == saturating_sub(taker_order.size, total_matched)
    IN  IF should_rest(remaining_size, market)
        THEN add_order(e, market,
                [taker_order EXCEPT !.filled_size = total_matched,
                                    !.status = remaining_status(total_matched)])
        ELSE e

(* ---------------------------------------------------------------------- *)
(* cancel_order, cancel_all_orders                                         *)
(* ---------------------------------------------------------------------- *)
\* A cancel_order that lets anybody cancel.
is_owner_Any(order, user_address) == TRUE

\* "Verify ownership"
is_owner(order, user_address) == order.user_address = user_address

cancel_order(e, order_id, user_address) ==
    IF ~Has(e.uuid_to_market, order_id)
    THEN [e |-> e, result |-> "OrderNotFound"]
    ELSE
    LET market_id == e.uuid_to_market[order_id] IN
    IF ~Has(e.order_storage, market_id)
    THEN [e |-> e, result |-> "OrderNotFound"]
    ELSE IF ~Has(e.order_storage[market_id], order_id)
    THEN [e |-> e, result |-> "OrderNotFound"]
    ELSE IF ~is_owner(e.order_storage[market_id][order_id], user_address)
    THEN [e |-> e, result |-> "OrderNotFound"]
    ELSE [e |-> [e EXCEPT
                    !.order_storage[market_id] = Del(@, order_id),
                    !.ob = IF Has(@, market_id)
                           THEN [@ EXCEPT ![market_id] = book_cancel_order(@, order_id)]
                           ELSE @,
                    !.uuid_to_market = Del(@, order_id),
                    !.terminal = Put(@, order_id, "Cancelled")],
          result |-> "Ok"]

\* The ids cancel_all_orders removes from one market.
user_order_ids(market_orders, user_address) ==
    { i \in DOMAIN market_orders : market_orders[i].user_address = user_address }

\* A cancel_all_orders that scans every market whatever the scope.
cancel_all_orders_AnyMarket(e, user_address, markets_to_check) ==
    LET gone(mid) == user_order_ids(e.order_storage[mid], user_address)
        allGone == UNION { gone(mid) : mid \in DOMAIN e.order_storage }
    IN  [e EXCEPT
            !.order_storage = [mid \in DOMAIN @ |->
                [i \in (DOMAIN @[mid]) \ gone(mid) |-> @[mid][i]]],
            !.ob = [mid \in DOMAIN @ |->
                [i \in (DOMAIN @[mid]) \ allGone |-> @[mid][i]]],
            !.uuid_to_market = [i \in (DOMAIN @) \ allGone |-> @[i]],
            !.terminal = [i \in (DOMAIN @) \cup allGone |->
                IF i \in allGone THEN "Cancelled" ELSE @[i]]]

cancel_all_orders(e, user_address, markets_to_check) ==
    LET gone(mid) == IF Has(e.order_storage, mid)
                     THEN user_order_ids(e.order_storage[mid], user_address)
                     ELSE {}
        allGone == UNION { gone(mid) : mid \in markets_to_check }
    IN  [e EXCEPT
            !.order_storage = [mid \in DOMAIN @ |->
                IF mid \in markets_to_check
                THEN [i \in (DOMAIN @[mid]) \ gone(mid) |-> @[mid][i]]
                ELSE @[mid]],
            !.ob = [mid \in DOMAIN @ |->
                IF mid \in markets_to_check
                THEN [i \in (DOMAIN @[mid]) \ gone(mid) |-> @[mid][i]]
                ELSE @[mid]],
            !.uuid_to_market = [i \in (DOMAIN @) \ allGone |-> @[i]],
            !.terminal = [i \in (DOMAIN @) \cup allGone |->
                IF i \in allGone THEN "Cancelled" ELSE @[i]]]

(* ---------------------------------------------------------------------- *)
(* get_order, snapshot_for_market                                          *)
(* ---------------------------------------------------------------------- *)
get_order(e, order_id) ==
    IF ~Has(e.uuid_to_market, order_id) THEN NoOrder
    ELSE IF ~Has(e.order_storage, e.uuid_to_market[order_id]) THEN NoOrder
    ELSE IF ~Has(e.order_storage[e.uuid_to_market[order_id]], order_id) THEN NoOrder
    ELSE e.order_storage[e.uuid_to_market[order_id]][order_id]

RECURSIVE SumRemaining(_, _)
SumRemaining(market_orders, ids) ==
    IF ids = {} THEN 0
    ELSE LET i == CHOOSE x \in ids : TRUE
         IN  saturating_sub(market_orders[i].size, market_orders[i].filled_size)
             + SumRemaining(market_orders, ids \ {i})

\* One side of snapshot_for_market, as the set of its {price, size} levels.
snapshot_levels(e, market_id, side) ==
    IF ~Has(e.order_storage, market_id) THEN {}
    ELSE
    LET market_orders == e.order_storage[market_id]
        at(p) == { i \in DOMAIN market_orders :
                     market_orders[i].side = side /\ market_orders[i].price = p }
        prices == { market_orders[i].price : i \in
                     { j \in DOMAIN market_orders : market_orders[j].side = side } }
    IN  { l \in { [price |-> p, size |-> SumRemaining(market_orders, at(p))] :
                    p \in prices } : l.size > 0 }

\* enriched.bid_depth_total / ask_depth_total: the quantity, in lots, that
\* rests on one side of the market's OrderBook-rs book.
RECURSIVE depth_total(_, _)
depth_total(book, ids) ==
    IF ids = {} THEN 0
    ELSE LET i == CHOOSE x \in ids : TRUE
         IN  book[i].quantity + depth_total(book, ids \ {i})

\* stats.bid_depth / stats.ask_depth of enriched_snapshots for one market
\* (side "Buy" / "Sell"); the market has a book and a configuration.
enriched_depth(e, market_id, side) ==
    lots_to_size(e.market_configs[market_id],
                 depth_total(e.ob[market_id],
                     { i \in DOMAIN e.ob[market_id] :
                         e.ob[market_id][i].side = side }))

\* A sort that puts the lowest price first on both sides.
sort_levels_Ascending(levels, side) ==
    LET RECURSIVE asc(_)
        asc(ls) == IF ls = {} THEN <<>>
                   ELSE LET first == CHOOSE l \in ls :
                                        \A k \in ls : l.price <= k.price
                        IN  <<first>> \o asc(ls \ {first})
    IN  asc(levels)

\* bids.sort_by(|a, b| b.price.cmp(&a.price)) and
\* asks.sort_by(|a, b| a.price.cmp(&b.price)): one level per price, so the
\* order of equal keys does not arise.
sort_levels(levels, side) ==
    LET RECURSIVE srt(_)
        srt(ls) == IF ls = {} THEN <<>>
                   ELSE LET first == CHOOSE l \in ls : \A k \in ls :
                                        IF side = "Buy" THEN l.price >= k.price
                                        ELSE l.price <= k.price
                        IN  <<first>> \o srt(ls \ {first})
    IN  srt(levels)

\* snapshot_for_market: both sides, sorted (timestamp and stats left out).
snapshot_for_market(e, market_id) ==
    [market_id |-> market_id,
     bids |-> sort_levels(snapshot_levels(e, market_id, "Buy"), "Buy"),
     asks |-> sort_levels(snapshot_levels(e, market_id, "Sell"), "Sell")]

(* ---------------------------------------------------------------------- *)
(* Actions: one call of a public method, run to completion                 *)
(* ---------------------------------------------------------------------- *)
InitMarket(m) ==
    /\ tasks = <<>>
    /\ SetEng(init_market(Eng, MarketOf(m)))
    /\ last' = [NoCall EXCEPT !.op = "init_market"]
    /\ UNCHANGED <<nextId, conc>>

AddOrder(o) ==
    /\ tasks = <<>>
    /\ nextId <= MaxOrders
    /\ o.id = nextId
    /\ SetEng(add_order(Eng, MarketOf(o.market_id), o))
    /\ nextId' = nextId + 1
    /\ last' = IF nothing_remains(o)
               THEN [NoCall EXCEPT !.op = "add_order", !.taker = o]
               ELSE NoCall
    /\ UNCHANGED conc

\* match_order for a new taker.
MatchOrder(o) ==
    /\ tasks = <<>>
    /\ nextId <= MaxOrders
    /\ o.id = nextId
    /\ \E arr \in Arrangements(Eng, MarketOf(o.market_id), o) :
         LET matches == compute_matches(Eng, MarketOf(o.market_id), o, arr)
             e == match_order(Eng, MarketOf(o.market_id), o, matches)
         IN
         /\ SetEng(e)
         /\ last' = [NoCall EXCEPT
                        !.op = "match_order",
                        !.taker = o, !.matches = matches,
                        !.pre = IF Has(order_storage, o.market_id)
                                THEN order_storage[o.market_id] ELSE EmptyMap,
                        !.pre_index = uuid_to_market,
                        !.pre_ob = ob,
                        !.written = e.written]
    /\ nextId' = nextId + 1
    /\ UNCHANGED conc

\* apply_trades with the trades of the matches match_order just returned
\* (the second half of a placement).
ApplyTrades ==
    /\ last.op = "match_order"
    /\ LET trades == TradesOf(last.taker, last.matches)
           e == apply_trades([Eng EXCEPT !.written = last.written],
                             last.taker, trades, MarketOf(last.taker.market_id))
       IN  /\ SetEng(IF SumSizes(trades) >= last.taker.size
                     THEN [e EXCEPT !.terminal = Put(@, last.taker.id, "Filled")]
                     ELSE e)
           /\ last' = [last EXCEPT !.op = "apply_trades", !.written = e.written]
    /\ UNCHANGED <<nextId, conc>>

\* What a cancel_order(id, user) is aimed at.
CancelTarget(id, user) ==
    IF Has(terminal, id) THEN terminal[id]
    ELSE IF get_order(Eng, id) = NoOrder THEN "never_rested"
    ELSE IF get_order(Eng, id).user_address = user THEN "own" ELSE "not_own"

\* cancel_order(id, user) is the owner's cancel of the taker that the
\* placement just before it rested without a fill.
UndoesPlacement(id, user) ==
    /\ last.op = "apply_trades"
    /\ last.matches = <<>>
    /\ last.taker.id = id
    /\ last.taker.user_address = user
    /\ get_order(Eng, id) # NoOrder

CancelOrder(id, user) ==
    /\ tasks = <<>>
    /\ LET r == cancel_order(Eng, id, user) IN
         /\ SetEng(r.e)
         /\ last' = [NoCall EXCEPT !.op = "cancel_order",
                                   !.result = r.result,
                                   !.target = CancelTarget(id, user),
                                   !.undoes = UndoesPlacement(id, user)]
    /\ UNCHANGED <<nextId, conc>>

CancelAllOrders(user, scope) ==
    /\ tasks = <<>>
    /\ SetEng(cancel_all_orders(Eng, user,
                IF scope = "None" THEN DOMAIN order_storage ELSE {scope}))
    /\ last' = [NoCall EXCEPT !.op = "cancel_all_orders",
                              !.pre_index = uuid_to_market]
    /\ UNCHANGED <<nextId, conc>>

\* Users are interchangeable: the first order is u1's.
FirstUser(o) == o.id = 1 => o.user_address = "u1"

Next ==
    \/ InitMarket("A")
    \/ \E o \in LimitOrders(nextId, "A") : FirstUser(o) /\ AddOrder(o)
    \/ \E o \in FilledOrders(nextId, "A") : AddOrder(o)
    \/ \E o \in LimitOrders(nextId, "A") \cup MarketOrders(nextId, "A") :
          FirstUser(o) /\ MatchOrder(o)
    \/ ApplyTrades
    \/ \E id \in 1..(nextId - 1), u \in Users : CancelOrder(id, u)
    \/ \E u \in Users, scope \in {"None", "A"} : CancelAllOrders(u, scope)

Spec == Init /\ [][Next]_vars

(* ---------------------------------------------------------------------- *)
(* The calls of Spec and snapshots in between                              *)
(* ---------------------------------------------------------------------- *)
\* snapshot_for_market(m): reads the order storage and returns the snapshot.
SnapshotForMarket(m) ==
    /\ tasks = <<>>
    /\ last' = [NoCall EXCEPT !.op = "snapshot_for_market",
                              !.target = m,
                              !.result = snapshot_for_market(Eng, m)]
    /\ events' = <<>>
    /\ UNCHANGED <<books, ob, market_configs, uuid_to_market, order_storage,
                   event_tx, port, terminal, nextId, conc>>

NextSnap ==
    \/ Next
    \/ \E m \in Markets : SnapshotForMarket(m)

SpecSnap == Init /\ [][NextSnap]_vars

(* ---------------------------------------------------------------------- *)
(* Placements only: every order enters by match_order followed by          *)
(* apply_trades, and nothing comes between the two                          *)
(* ---------------------------------------------------------------------- *)
\* No placement is half done.
Settled == last.op # "match_order"

NextPlace ==
    \/ Settled /\ InitMarket("A")
    \/ \E o \in LimitOrders(nextId, "A") \cup MarketOrders(nextId, "A") :
          Settled /\ FirstUser(o) /\ MatchOrder(o)
    \/ ApplyTrades
    \/ \E id \in 1..(nextId - 1), u \in Users : Settled /\ CancelOrder(id, u)
    \/ \E u \in Users, scope \in {"None", "A"} :
          Settled /\ CancelAllOrders(u, scope)

SpecPlace == Init /\ [][NextPlace]_vars

(* ---------------------------------------------------------------------- *)
(* Two markets, fewer order shapes                                         *)
(* ---------------------------------------------------------------------- *)
\* Limit orders at the lowest tick, created at time 1.
FewOrders(id, m) ==
    { make_order(id, m, u, s, "Limit", MarketOf(m).tick_size,
                 l * MarketOf(m).lot_size, 1) :
        u \in Users, s \in Sides, l \in SizeLots }

NextMarkets ==
    \/ \E m \in Markets : InitMarket(m)
    \/ \E m \in Markets : \E o \in FewOrders(nextId, m) :
          FirstUser(o) /\ AddOrder(o)
    \/ \E m \in Markets : \E o \in FewOrders(nextId, m) :
          FirstUser(o) /\ MatchOrder(o)
    \/ ApplyTrades
    \/ \E id \in 1..(nextId - 1), u \in Users : CancelOrder(id, u)
    \/ \E u \in Users, scope \in {"None"} \cup Markets : CancelAllOrders(u, scope)

SpecMarkets == Init /\ [][NextMarkets]_vars

(* ---------------------------------------------------------------------- *)
(* The event port in every condition                                       *)
(* ---------------------------------------------------------------------- *)
\* The adapter is built without a sender (BookManagerAdapter::new), or with
\* one whose channel has a subscriber that keeps up, none, or one that lags.
InitPorts ==
    /\ \E p \in Ports : InitEng([NewEng(TRUE) EXCEPT !.port = p])
       \/ InitEng([NewEng(FALSE) EXCEPT !.port = "no_receiver"])
    /\ nextId = 1
    /\ last = NoCall
    /\ tasks = <<>>
    /\ mgr = 0
    /\ cfg_guards = {}
    /\ st_guard = 0
    /\ base = NewEng(TRUE)

NextPorts ==
    \/ InitMarket("A")
    \/ \E o \in FewOrders(nextId, "A") : FirstUser(o) /\ AddOrder(o)
    \/ \E o \in FewOrders(nextId, "A") : FirstUser(o) /\ MatchOrder(o)
    \/ ApplyTrades
    \/ \E id \in 1..(nextId - 1), u \in Users : CancelOrder(id, u)

SpecPorts == InitPorts /\ [][NextPorts]_vars

(* ---------------------------------------------------------------------- *)
(* Orders off the market's quanta                                          *)
(* ---------------------------------------------------------------------- *)
\* Limit orders whose price is one above a tick multiple, whose size is one
\* above a lot multiple, or whose size is a lot multiple below min_size.
OffQuantumOrders(id, m) ==
    { make_order(id, m, u, s, "Limit", ps[1], ps[2], 1) :
        u \in Users, s \in Sides,
        ps \in { <<MarketOf(m).tick_size + 1, 2 * MarketOf(m).lot_size>>,
                 <<MarketOf(m).tick_size, 2 * MarketOf(m).lot_size + 1>>,
                 <<MarketOf(m).tick_size, MarketOf(m).lot_size>> } }

\* Every order shape a caller can hand to add_order or match_order.
AnyOrders(id, m) == FewOrders(id, m) \cup OffQuantumOrders(id, m)

NextInputs ==
    \/ InitMarket("A")
    \/ \E o \in AnyOrders(nextId, "A") : FirstUser(o) /\ AddOrder(o)
    \/ \E o \in AnyOrders(nextId, "A") : FirstUser(o) /\ MatchOrder(o)
    \/ ApplyTrades
    \/ \E id \in 1..(nextId - 1), u \in Users : CancelOrder(id, u)

SpecInputs == Init /\ [][NextInputs]_vars

(* ---------------------------------------------------------------------- *)
(* Concurrent calls on one market                                          *)
(*                                                                         *)
(* Two calls run as tasks on a multi-threaded runtime.  A task moves from   *)
(* one synchronisation point to the next: a DashMap access is one step (the *)
(* entry guard makes it atomic), `manager.write().await` is where a task    *)
(* can be overtaken.  A guard that the code keeps across an await stays     *)
(* held between steps: the market_configs read guard of add_order and       *)
(* match_order (`config`, `_config`) and the order_storage write guard of   *)
(* update_order_fill (`market_orders`).                                     *)
(* ---------------------------------------------------------------------- *)
\* The adapter's fields with everything sent on event_tx since the spawn.
EngC == [Eng EXCEPT !.events = events]

\* The market the concurrent calls work on.
TheMarket == MarketOf("A")

\* Orders of the concurrent runs: one price, one size, one creation time.
ConcOrders(id) ==
    { make_order(id, "A", u, s, "Limit", TheMarket.tick_size,
                 2 * TheMarket.lot_size, 1) : u \in Users, s \in Sides }

NewTask(op, order, id, user, pc) ==
    [op |-> op, order |-> order, id |-> id, user |-> user, pc |-> pc,
     fills |-> <<>>, market |-> "", result |-> <<>>, unsent |-> <<>>]

\* The calls a task can be: a call with a new order uses the id `id`.
ConcCalls(id) ==
    (IF id <= MaxOrders
     THEN { NewTask("match_order", o, 0, "", "snapshot") : o \in ConcOrders(id) }
          \cup { NewTask("add_order", o, 0, "", "init_lock") : o \in ConcOrders(id) }
     ELSE {})
    \cup { NewTask("cancel_order", NoOrder, i, u, "lookup") :
             i \in 1..(nextId - 1), u \in Users }
    \cup { NewTask("cancel_all_orders", NoOrder, 0, u, "lock") : u \in Users }

\* Two calls are issued together.
Spawn ==
    /\ tasks = <<>>
    /\ \E c1 \in ConcCalls(nextId), c2 \in ConcCalls(nextId + 1) :
         tasks' = <<c1, c2>>
    /\ nextId' = nextId + 2
    /\ base' = EngC
    /\ UNCHANGED <<books, ob, market_configs, uuid_to_market, order_storage,
                   event_tx, port, events, terminal, last, mgr, cfg_guards,
                   st_guard>>

\* One step of task t: the adapter becomes e, the task rec, and the manager
\* lock, the config guards and the storage guard become m, c and s.
Step(t, e, rec, m, c, s) ==
    /\ SetEng(e)
    /\ tasks' = [tasks EXCEPT ![t] = rec]
    /\ mgr' = m
    /\ cfg_guards' = c
    /\ st_guard' = s
    /\ UNCHANGED <<nextId, last, base>>

At(t, op, pc) == tasks[t].op = op /\ tasks[t].pc = pc

\* The market a task's order is for.
TaskMarket(t) == MarketOf(tasks[t].order.market_id)

\* The tasks holding a read guard on the market_configs entry of market m.
GuardsOn(m) == { g \in cfg_guards : tasks[g].order.market_id = m }

\* init_market: `self.manager.write().await`, then add_book if there is none.
TInitLock(t) ==
    /\ At(t, "add_order", "init_lock")
    /\ mgr = 0
    /\ Step(t, [EngC EXCEPT
                  !.books = @ \cup {TaskMarket(t).id},
                  !.ob = IF Has(@, TaskMarket(t).id) THEN @
                         ELSE Put(@, TaskMarket(t).id, EmptyMap)],
            [tasks[t] EXCEPT !.pc = "init_config"], t, cfg_guards, st_guard)

\* init_market: market_configs.insert waits for the entry's read guards.
TInitConfig(t) ==
    /\ At(t, "add_order", "init_config")
    /\ GuardsOn(TaskMarket(t).id) \ {t} = {}
    /\ Step(t, [EngC EXCEPT !.market_configs = Put(@, TaskMarket(t).id,
                    [tick_size |-> TaskMarket(t).tick_size,
                     lot_size |-> TaskMarket(t).lot_size])],
            [tasks[t] EXCEPT !.pc = "init_storage"], mgr, cfg_guards, st_guard)

\* An init_market that inserts an empty order storage over the one there.
TInitStorage_Overwrite(t) ==
    /\ At(t, "add_order", "init_storage")
    /\ st_guard = 0
    /\ Step(t, [EngC EXCEPT !.order_storage = Put(@, TaskMarket(t).id, EmptyMap)],
            [tasks[t] EXCEPT !.pc = "index"], 0, cfg_guards, st_guard)

\* init_market: order_storage.entry(..).or_insert_with, then the manager lock
\* is dropped.
TInitStorage(t) ==
    /\ At(t, "add_order", "init_storage")
    /\ st_guard = 0
    /\ Step(t, [EngC EXCEPT !.order_storage =
                    IF Has(@, TaskMarket(t).id) THEN @
                    ELSE Put(@, TaskMarket(t).id, EmptyMap)],
            [tasks[t] EXCEPT !.pc = "index"], 0, cfg_guards, st_guard)

\* add_order: take `config`, return if nothing remains, insert into the index.
TIndex(t) ==
    /\ At(t, "add_order", "index")
    /\ LET order == tasks[t].order IN
       IF saturating_sub(order.size, order.filled_size) = 0
       THEN Step(t, EngC, [tasks[t] EXCEPT !.pc = "done"],
                 mgr, cfg_guards, st_guard)
       ELSE Step(t, [EngC EXCEPT !.uuid_to_market =
                        Put(@, order.id, TaskMarket(t).id)],
                 [tasks[t] EXCEPT !.pc = "store"],
                 mgr, cfg_guards \cup {t}, st_guard)

\* add_order: insert into order_storage.
TStore(t) ==
    /\ At(t, "add_order", "store")
    /\ st_guard = 0
    /\ LET order == tasks[t].order IN
       Step(t, [EngC EXCEPT !.order_storage =
                    IF Has(@, TaskMarket(t).id)
                    THEN [@ EXCEPT ![TaskMarket(t).id] = Put(@, order.id, order)]
                    ELSE Put(@, TaskMarket(t).id, Put(EmptyMap, order.id, order))],
            [tasks[t] EXCEPT !.pc = "book"], mgr, cfg_guards, st_guard)

\* add_order: `self.manager.write().await`, add_limit_order, return.
TBook(t) ==
    /\ At(t, "add_order", "book")
    /\ mgr = 0
    /\ LET order == tasks[t].order
           config == market_configs[TaskMarket(t).id]
       IN
       Step(t, [EngC EXCEPT !.ob =
                    IF Has(@, TaskMarket(t).id)
                    THEN [@ EXCEPT ![TaskMarket(t).id] = add_limit_order(@, order.id,
                            price_to_ticks(config, order.price),
                            size_to_lots(config,
                                saturating_sub(order.size, order.filled_size)),
                            order.side)]
                    ELSE @],
            [tasks[t] EXCEPT !.pc = "done"], mgr, cfg_guards \ {t}, st_guard)

\* match_order up to its fills: take `_config`, read the opposite side under
\* the storage guard, sort, run the loop and send the events.
TSnapshot(t) ==
    /\ At(t, "match_order", "snapshot")
    /\ st_guard = 0
    /\ LET taker_order == tasks[t].order IN
       \E arr \in Arrangements(EngC, TheMarket, taker_order) :
         LET matches == compute_matches(EngC, TheMarket, taker_order, arr)
             sent == IF event_tx
                     THEN [EngC EXCEPT !.events =
                            @ \o TradeEvents(TheMarket.id, taker_order, matches)]
                     ELSE EngC
         IN  IF matches = <<>>
             THEN Step(t, EngC, [tasks[t] EXCEPT !.pc = "done"],
                       mgr, cfg_guards, st_guard)
             ELSE Step(t, sent,
                       [tasks[t] EXCEPT !.pc = "fill", !.fills = matches,
                                        !.result = matches],
                       mgr, cfg_guards \cup {t}, st_guard)

\* The task's position after the fill at the head of its list.
AfterFill(rec) ==
    [rec EXCEPT !.fills = Tail(@),
                !.pc = IF Tail(rec.fills) = <<>> THEN "done" ELSE "fill"]

\* The config guards once task t stands at rec.
GuardsAt(t, rec) == IF rec.pc = "done" THEN cfg_guards \ {t} ELSE cfg_guards

\* update_order_fill under the order_storage guard; a completed order leaves
\* storage and index, and the guard is kept for the manager lock.
TFill(t) ==
    /\ At(t, "match_order", "fill")
    /\ st_guard = 0
    /\ LET f == Head(tasks[t].fills)
           id == f.maker_order.id
       IN  IF fill_completes(EngC, id, f.size)
           THEN Step(t, fill_in_storage(EngC, id, f.size),
                     [tasks[t] EXCEPT !.pc = "fill_book",
                                      !.market = uuid_to_market[id]],
                     mgr, cfg_guards, t)
           ELSE Step(t, fill_in_storage(EngC, id, f.size), AfterFill(tasks[t]),
                     mgr, GuardsAt(t, AfterFill(tasks[t])), st_guard)

\* update_order_fill: `self.manager.write().await`, cancel in OrderBook-rs.
TFillBook(t) ==
    /\ At(t, "match_order", "fill_book")
    /\ mgr = 0
    /\ Step(t, fill_in_book(EngC, tasks[t].market,
                            Head(tasks[t].fills).maker_order.id),
            AfterFill(tasks[t]), mgr, GuardsAt(t, AfterFill(tasks[t])), 0)

\* What cancel_order returns.
CancelResult(status, order) == [status |-> status, order |-> order]

\* cancel_order: the index lookup.
TLookup(t) ==
    /\ At(t, "cancel_order", "lookup")
    /\ IF Has(uuid_to_market, tasks[t].id)
       THEN Step(t, EngC, [tasks[t] EXCEPT !.pc = "remove",
                              !.market = uuid_to_market[tasks[t].id]],
                 mgr, cfg_guards, st_guard)
       ELSE Step(t, EngC, [tasks[t] EXCEPT !.pc = "done",
                              !.result = CancelResult("OrderNotFound", NoOrder)],
                 mgr, cfg_guards, st_guard)

\* cancel_order: under the storage guard, find the order, verify ownership,
\* remove it from storage.
TRemove(t) ==
    /\ At(t, "cancel_order", "remove")
    /\ st_guard = 0
    /\ LET market_id == tasks[t].market
           order_id == tasks[t].id
       IN  IF /\ Has(order_storage, market_id)
              /\ Has(order_storage[market_id], order_id)
              /\ is_owner(order_storage[market_id][order_id], tasks[t].user)
           THEN Step(t, [EngC EXCEPT !.order_storage[market_id] = Del(@, order_id)],
                     [tasks[t] EXCEPT !.pc = "cancel_book",
                        !.result = CancelResult("Ok",
                                      order_storage[market_id][order_id])],
                     mgr, cfg_guards, st_guard)
           ELSE Step(t, EngC, [tasks[t] EXCEPT !.pc = "done",
                        !.result = CancelResult("OrderNotFound", NoOrder)],
                     mgr, cfg_guards, st_guard)

\* cancel_order: `self.manager.write().await`, cancel in OrderBook-rs, remove
\* from the index.
TCancelBook(t) ==
    /\ At(t, "cancel_order", "cancel_book")
    /\ mgr = 0
    /\ Step(t, [EngC EXCEPT
                  !.ob = IF Has(@, tasks[t].market)
                         THEN [@ EXCEPT ![tasks[t].market] =
                                  book_cancel_order(@, tasks[t].id)]
                         ELSE @,
                  !.uuid_to_market = Del(@, tasks[t].id),
                  !.terminal = Put(@, tasks[t].id, "Cancelled")],
            [tasks[t] EXCEPT !.pc = "done"], mgr, cfg_guards, st_guard)

\* cancel_all_orders: `self.manager.write().await`.
TCancelAllLock(t) ==
    /\ At(t, "cancel_all_orders", "lock")
    /\ mgr = 0
    /\ Step(t, EngC, [tasks[t] EXCEPT !.pc = "scan"], t, cfg_guards, st_guard)

\* The orders cancel_all_orders returns.
cancelled_orders(e, user_address, markets_to_check) ==
    UNION { { e.order_storage[mid][i] :
                i \in user_order_ids(e.order_storage[mid], user_address) } :
            mid \in markets_to_check \cap DOMAIN e.order_storage }

\* cancel_all_orders: the market's orders under its storage guard, then the
\* manager lock is dropped.
TCancelAllScan(t) ==
    /\ At(t, "cancel_all_orders", "scan")
    /\ st_guard = 0
    /\ Step(t, cancel_all_orders(EngC, tasks[t].user, DOMAIN order_storage),
            [tasks[t] EXCEPT !.pc = "done",
                !.result = cancelled_orders(EngC, tasks[t].user,
                                            DOMAIN order_storage)],
            0, cfg_guards, st_guard)

NextConc ==
    \/ \E o \in ConcOrders(nextId) : FirstUser(o) /\ AddOrder(o)
    \/ Spawn
    \/ \E t \in DOMAIN tasks : TInitLock(t)
    \/ \E t \in DOMAIN tasks : TInitConfig(t)
    \/ \E t \in DOMAIN tasks : TInitStorage(t)
    \/ \E t \in DOMAIN tasks : TIndex(t)
    \/ \E t \in DOMAIN tasks : TStore(t)
    \/ \E t \in DOMAIN tasks : TBook(t)
    \/ \E t \in DOMAIN tasks : TSnapshot(t)
    \/ \E t \in DOMAIN tasks : TFill(t)
    \/ \E t \in DOMAIN tasks : TFillBook(t)
    \/ \E t \in DOMAIN tasks : TLookup(t)
    \/ \E t \in DOMAIN tasks : TRemove(t)
    \/ \E t \in DOMAIN tasks : TCancelBook(t)
    \/ \E t \in DOMAIN tasks : TCancelAllLock(t)
    \/ \E t \in DOMAIN tasks : TCancelAllScan(t)

SpecConc == Init /\ [][NextConc]_vars

\* What one call, run alone from the adapter state e, can leave and return.
SeqOutcomes(e, call) ==
    CASE call.op = "match_order" ->
           { [e |-> match_order(e, TheMarket, call.order,
                        compute_matches(e, TheMarket, call.order, arr)),
              result |-> compute_matches(e, TheMarket, call.order, arr)] :
             arr \in Arrangements(e, TheMarket, call.order) }
      [] call.op = "add_order" ->
           { [e |-> add_order(e, TheMarket, call.order), result |-> <<>>] }
      [] call.op = "cancel_order" ->
           { [e |-> cancel_order(e, call.id, call.user).e,
              result |-> IF cancel_order(e, call.id, call.user).result = "Ok"
                         THEN CancelResult("Ok", get_order(e, call.id))
                         ELSE CancelResult("OrderNotFound", NoOrder)] }
      [] call.op = "cancel_all_orders" ->
           { [e |-> cancel_all_orders(e, call.user, DOMAIN e.order_storage),
              result |-> cancelled_orders(e, call.user, DOMAIN e.order_storage)] }

\* What a caller can observe of the adapter: its maps, the OrderBook-rs
\* books and the events sent.
Observable(e) ==
    [books |-> e.books, ob |-> e.ob, market_configs |-> e.market_configs,
     uuid_to_market |-> e.uuid_to_market, order_storage |-> e.order_storage,
     events |-> e.events]

\* Some order of the calls `rest`, run one after the other from e, returns
\* what the tasks returned and ends in the present state.
RECURSIVE SomeOrder(_, _)
SomeOrder(e, rest) ==
    IF rest = {} THEN Observable(e) = Observable(EngC)
    ELSE \E t \in rest : \E o \in SeqOutcomes(e, tasks[t]) :
            /\ o.result = tasks[t].result
            /\ SomeOrder(o.e, rest \ {t})

AllDone == tasks # <<>> /\ \A t \in DOMAIN tasks : tasks[t].pc = "done"

(* ---------------------------------------------------------------------- *)
(* Concurrent add_order calls spread over the markets                      *)
(* ---------------------------------------------------------------------- *)
\* MaxOrders add_order calls with distinct ids are issued together on a new
\* adapter, each for a market of its own choosing.
SpawnAdds ==
    /\ tasks = <<>>
    /\ nextId = 1
    /\ \E mk \in [1..MaxOrders -> Markets], sd \in [1..MaxOrders -> Sides] :
         tasks' = [i \in 1..MaxOrders |->
                     NewTask("add_order",
                             make_order(i, mk[i], "u1", sd[i], "Limit",
                                        MarketOf(mk[i]).tick_size,
                                        2 * MarketOf(mk[i]).lot_size, 1),
                             0, "", "init_lock")]
    /\ nextId' = MaxOrders + 1
    /\ base' = EngC
    /\ UNCHANGED <<books, ob, market_configs, uuid_to_market, order_storage,
                   event_tx, port, events, terminal, last, mgr, cfg_guards,
                   st_guard>>

NextAdds ==
    \/ SpawnAdds
    \/ \E t \in DOMAIN tasks : TInitLock(t)
    \/ \E t \in DOMAIN tasks : TInitConfig(t)
    \/ \E t \in DOMAIN tasks : TInitStorage(t)
    \/ \E t \in DOMAIN tasks : TIndex(t)
    \/ \E t \in DOMAIN tasks : TStore(t)
    \/ \E t \in DOMAIN tasks : TBook(t)

SpecAdds == Init /\ [][NextAdds]_vars

(* ---------------------------------------------------------------------- *)
(* Concurrent match_order calls, one event_tx.send at a time               *)
(*                                                                         *)
(* The loop of match_order runs on the task's own copy of the opposite      *)
(* orders; what other tasks can see of it are its sends, one per match.     *)
(* ---------------------------------------------------------------------- *)
\* The resting orders the takers meet.
MaxMakers == 2

\* Takers large enough to take two makers.
TakerOrders(id) ==
    { make_order(id, "A", u, s, "Limit", TheMarket.tick_size,
                 5 * TheMarket.lot_size, 1) : u \in Users, s \in Sides }

\* Two match_order calls are issued together once the makers rest.
SpawnTakers ==
    /\ tasks = <<>>
    /\ nextId = MaxMakers + 1
    /\ \E o1 \in TakerOrders(nextId), o2 \in TakerOrders(nextId + 1) :
         tasks' = <<NewTask("match_order", o1, 0, "", "snapshot"),
                    NewTask("match_order", o2, 0, "", "snapshot")>>
    /\ nextId' = nextId + 2
    /\ base' = EngC
    /\ UNCHANGED <<books, ob, market_configs, uuid_to_market, order_storage,
                   event_tx, port, events, terminal, last, mgr, cfg_guards,
                   st_guard>>

\* match_order: take `_config`, read and sort the opposite side under the
\* storage guard; the loop then runs on that copy.
TRead(t) ==
    /\ At(t, "match_order", "snapshot")
    /\ st_guard = 0
    /\ LET taker_order == tasks[t].order IN
       \E arr \in Arrangements(EngC, TheMarket, taker_order) :
         LET matches == compute_matches(EngC, TheMarket, taker_order, arr) IN
         IF matches = <<>>
         THEN Step(t, EngC, [tasks[t] EXCEPT !.pc = "done"],
                   mgr, cfg_guards, st_guard)
         ELSE Step(t, EngC,
                   [tasks[t] EXCEPT
                      !.pc = IF event_tx THEN "send" ELSE "fill",
                      !.fills = matches, !.result = matches,
                      !.unsent = TradeEvents(TheMarket.id, taker_order, matches)],
                   mgr, cfg_guards \cup {t}, st_guard)

\* match_order: one `event_tx.send(EngineEvent::TradeExecuted { trade })`.
TSend(t) ==
    /\ At(t, "match_order", "send")
    /\ Step(t, [EngC EXCEPT !.events = Append(@, Head(tasks[t].unsent))],
            [tasks[t] EXCEPT !.unsent = Tail(@),
                             !.pc = IF Tail(tasks[t].unsent) = <<>>
                                    THEN "fill" ELSE "send"],
            mgr, cfg_guards, st_guard)

NextSends ==
    \/ \E o \in ConcOrders(nextId) :
          nextId <= MaxMakers /\ FirstUser(o) /\ AddOrder(o)
    \/ SpawnTakers
    \/ \E t \in DOMAIN tasks : TRead(t)
    \/ \E t \in DOMAIN tasks : TSend(t)
    \/ \E t \in DOMAIN tasks : TFill(t)
    \/ \E t \in DOMAIN tasks : TFillBook(t)

SpecSends == Init /\ [][NextSends]_vars

(* ---------------------------------------------------------------------- *)
(* Properties                                                              *)
(* ---------------------------------------------------------------------- *)
\* A match_order has returned (and apply_trades may have followed it).
Matched == last.op \in {"match_order", "apply_trades"}

Remaining(o) == o.size - o.filled_size

\* a is ahead of b for a taker of side `taker_side`.
Ahead(taker_side, a, b) ==
    \/ (taker_side = "Buy" /\ a.price < b.price)
    \/ (taker_side = "Sell" /\ a.price > b.price)
    \/ (a.price = b.price /\ a.created_at < b.created_at)

\* b is a maker the taker t may trade with at b's price.
PassesGate(t, b) ==
    \/ t.order_type = "Market"
    \/ (t.side = "Buy" /\ t.price >= b.price)
    \/ (t.side = "Sell" /\ t.price <= b.price)

\* The makers the taker of the last match_order found resting opposite.
Makers ==
    { last.pre[i] : i \in { j \in DOMAIN last.pre :
        /\ last.pre[j].side # last.taker.side
        /\ last.pre[j].size > last.pre[j].filled_size } }

\* The maker a trade event names.
EventMakerId(ev) ==
    IF ev.trade.side = "Buy" THEN ev.trade.seller_order_id
    ELSE ev.trade.buyer_order_id

\* C1: the matches match_order returns name resting makers in price-time
\* priority (best price first, within a price the earlier created_at first),
\* and a maker is matched only if every maker ahead of it that passes the
\* price gate and belongs to another user was matched for all it had left.
C1_PriceTimePriority ==
    Matched =>
        /\ \A i \in 1..Len(last.matches) :
              last.matches[i].maker_order \in Makers
        /\ \A i, j \in 1..Len(last.matches) :
              i < j => ~Ahead(last.taker.side, last.matches[j].maker_order,
                              last.matches[i].maker_order)
        /\ \A i \in 1..Len(last.matches) : \A b \in Makers :
              ( /\ Ahead(last.taker.side, b, last.matches[i].maker_order)
                /\ PassesGate(last.taker, b)
                /\ b.user_address # last.taker.user_address )
              => \E k \in 1..Len(last.matches) :
                    /\ last.matches[k].maker_order = b
                    /\ last.matches[k].size = Remaining(b)

\* Two makers of one price were matched, the earlier one first.
C1_Witness ==
    /\ last.op = "match_order"
    /\ Len(last.matches) = 2
    /\ last.matches[1].maker_order.price = last.matches[2].maker_order.price
    /\ last.matches[1].maker_order.created_at < last.matches[2].maker_order.created_at
    /\ last.matches[1].maker_order.id > last.matches[2].maker_order.id

\* C2: every match and every TradeExecuted event carries the resting price of
\* the maker it names, for limit and market takers.
C2_MakerPrice ==
    Matched =>
        /\ \A i \in 1..Len(last.matches) :
              /\ Has(last.pre, last.matches[i].maker_order.id)
              /\ last.matches[i].price =
                    last.pre[last.matches[i].maker_order.id].price
        /\ \A n \in 1..Len(events) :
              /\ Has(last.pre, EventMakerId(events[n]))
              /\ events[n].trade.price = last.pre[EventMakerId(events[n])].price

\* A limit taker traded at a maker's price that differs from its own, and the
\* event was sent.
C2_Witness ==
    /\ last.op = "match_order"
    /\ last.taker.order_type = "Limit"
    /\ Len(events) >= 1
    /\ \E i \in 1..Len(last.matches) : last.matches[i].price # last.taker.price

\* C3: a limit buy is never matched with a maker priced above it, a limit sell
\* never with a maker priced below it; a market taker is matched with the
\* opposite makers of other users whatever their price, until it is used up;
\* no maker behind one that fails the gate is matched.
C3_PriceGate ==
    Matched =>
        /\ \A i \in 1..Len(last.matches) :
              PassesGate(last.taker, last.matches[i].maker_order)
        /\ last.taker.order_type = "Market" =>
              \/ SumSizes(last.matches) = Remaining(last.taker)
              \/ \A b \in Makers : b.user_address # last.taker.user_address =>
                    \E k \in 1..Len(last.matches) :
                        /\ last.matches[k].maker_order = b
                        /\ last.matches[k].size = Remaining(b)
        /\ \A b \in Makers : ~PassesGate(last.taker, b) =>
              \A i \in 1..Len(last.matches) :
                  ~Ahead(last.taker.side, b, last.matches[i].maker_order)

\* A limit taker was matched with one maker while another maker failed the gate.
C3_Witness ==
    /\ last.op = "match_order"
    /\ last.taker.order_type = "Limit"
    /\ Len(last.matches) >= 1
    /\ \E b \in Makers : ~PassesGate(last.taker, b)

\* C4: no match and no TradeExecuted event has the same user on both sides.
C4_NoSelfTrade ==
    /\ Matched => \A i \in 1..Len(last.matches) :
          last.matches[i].maker_order.user_address # last.taker.user_address
    /\ \A n \in 1..Len(events) :
          events[n].trade.buyer_address # events[n].trade.seller_address

\* The taker found an own order opposite that passes the gate, and was
\* matched with somebody else's.
C4_Witness ==
    /\ last.op = "match_order"
    /\ Len(last.matches) >= 1
    /\ Len(events) >= 1
    /\ \E b \in Makers : /\ b.user_address = last.taker.user_address
                         /\ PassesGate(last.taker, b)

RECURSIVE SumIncrease(_)
SumIncrease(matches) ==
    IF matches = <<>> THEN 0
    ELSE LET id == Head(matches).maker_order.id
         IN  (IF Has(last.written, id) THEN last.written[id]
              ELSE last.pre[id].filled_size)
             - last.pre[id].filled_size + SumIncrease(Tail(matches))

\* C5: after a placement (match_order, then apply_trades with the trades of
\* its matches) each maker's filled_size has grown by the size of the trade
\* against it, and these increases add up to the taker's filled quantity.
C5_Conservation ==
    last.op = "apply_trades" =>
        /\ \A i \in 1..Len(last.matches) :
              LET id == last.matches[i].maker_order.id IN
              /\ Has(last.written, id)
              /\ last.written[id] - last.pre[id].filled_size = last.matches[i].size
        /\ SumIncrease(last.matches) = SumSizes(last.matches)

\* The orders the engine holds.
Held == { order_storage[m][i] : <<m, i>> \in
            { mi \in (DOMAIN order_storage) \X (1..MaxOrders) :
                Has(order_storage[mi[1]], mi[2]) } }

C6_Bounded == \A o \in Held : o.filled_size <= o.size

C6_Step ==
    \A m \in DOMAIN order_storage : \A i \in DOMAIN order_storage[m] :
        (Has(order_storage', m) /\ Has(order_storage'[m], i))
        => order_storage'[m][i].filled_size >= order_storage[m][i].filled_size

\* C6: every order the engine holds has filled_size <= size, and no call
\* lowers the filled_size of an order it leaves in the book.
C6_FilledSize == []C6_Bounded /\ [][C6_Step]_vars

\* A maker was filled in part and is still held.
C6_Witness ==
    /\ last.op = "apply_trades"
    /\ \E o \in Held : o.filled_size > 0 /\ o.id # last.taker.id

\* C7: per-market linearizability.  Whenever two concurrent calls on the
\* market have both returned, their return values, the events sent and the
\* final state of the adapter are those of running the two calls one after
\* the other, in one of the two orders, from the state they were issued in.
C7_Linearizable == AllDone => SomeOrder(base, DOMAIN tasks)

\* C8: an order id is in uuid_to_market iff the order is in the order storage
\* of the market the index names, and in no other.
C8_IndexConsistency ==
    /\ \A x \in DOMAIN uuid_to_market :
          /\ Has(order_storage, uuid_to_market[x])
          /\ Has(order_storage[uuid_to_market[x]], x)
    /\ \A m \in DOMAIN order_storage : \A x \in DOMAIN order_storage[m] :
          /\ Has(uuid_to_market, x)
          /\ uuid_to_market[x] = m

\* Orders rest in both markets after one order was filled and one cancelled.
C8_Witness ==
    /\ \E x, y \in DOMAIN uuid_to_market :
          uuid_to_market[x] = "A" /\ uuid_to_market[y] = "B"
    /\ terminal # EmptyMap

\* C9: an order that was filled completely or cancelled is in no order
\* storage, not in uuid_to_market, in no underlying book, get_order does not
\* find it, and a match names only makers that were resting when it ran.
C9_TerminalNotResting ==
    /\ \A x \in DOMAIN terminal :
          /\ ~Has(uuid_to_market, x)
          /\ \A m \in DOMAIN order_storage : ~Has(order_storage[m], x)
          /\ \A m \in DOMAIN ob : ~Has(ob[m], x)
          /\ get_order(Eng, x) = NoOrder
          /\ \A m \in DOMAIN order_storage :
                SumRemaining(order_storage[m], DOMAIN order_storage[m])
                = SumRemaining(order_storage[m], (DOMAIN order_storage[m]) \ {x})
    /\ Matched => \A i \in 1..Len(last.matches) :
          Has(last.pre, last.matches[i].maker_order.id)

\* One order has been filled and another cancelled, and a third still rests.
C9_Witness ==
    /\ \E x, y \in DOMAIN terminal :
          terminal[x] = "Filled" /\ terminal[y] = "Cancelled"
    /\ Held # {}

\* The adapter's fields.
adapter == <<books, ob, market_configs, uuid_to_market, order_storage, event_tx>>

\* C10: cancel_order on an order that was filled or cancelled before returns
\* OrderNotFound, changes nothing and sends nothing.
C10_CancelAfterTerminal ==
    [][ \A id \in DOMAIN terminal : \A u \in Users :
          CancelOrder(id, u) =>
              /\ last'.result = "OrderNotFound"
              /\ UNCHANGED adapter
              /\ UNCHANGED terminal
              /\ events' = <<>> ]_vars

\* A cancel_order aimed at a cancelled order has returned OrderNotFound.
C10_Witness ==
    /\ last.op = "cancel_order"
    /\ last.target = "Cancelled"
    /\ last.result = "OrderNotFound"

\* One side of the snapshot of every market that has order storage.
Snapshots(e) ==
    [m \in DOMAIN e.order_storage |->
        [bids |-> snapshot_levels(e, m, "Buy"),
         asks |-> snapshot_levels(e, m, "Sell")]]

\* C11: cancel_order by a user who is not the order's owner returns
\* OrderNotFound and leaves order storage, index, underlying book and
\* snapshot as they were; the order still rests, is still offered to takers
\* of the opposite side, and its owner can still cancel it.
C11_CancelByNonOwner ==
    [][ \A id \in 1..MaxOrders : \A u \in Users :
          (CancelTarget(id, u) = "not_own" /\ CancelOrder(id, u)) =>
              /\ last'.result = "OrderNotFound"
              /\ UNCHANGED <<order_storage, uuid_to_market, ob, books>>
              /\ Snapshots(Eng') = Snapshots(Eng)
              /\ get_order(Eng', id) = get_order(Eng, id)
              /\ get_order(Eng', id) # NoOrder
              /\ LET o == get_order(Eng', id) IN
                    /\ o \in OppositeOrders(order_storage'[o.market_id],
                                [side |-> OppositeSide(o.side)])
                    /\ cancel_order(Eng', id, o.user_address).result = "Ok" ]_vars

\* A cancel_order by somebody else than the owner has returned OrderNotFound.
C11_Witness ==
    /\ last.op = "cancel_order"
    /\ last.target = "not_own"
    /\ last.result = "OrderNotFound"

\* The snapshot of a market whose order storage is market_orders.
SnapshotOf(market_orders) ==
    Snapshots([order_storage |-> [m \in {"A"} |-> market_orders]])["A"]

\* C12: when a placement in an initialised market rests the order without a
\* fill, the owner's cancel_order of it succeeds and the market's resting
\* orders, uuid_to_market, the underlying book and the snapshot are again what
\* they were before the placement.
C12_AddThenCancel ==
    [][ \A id \in 1..MaxOrders : \A u \in Users :
          ( /\ UndoesPlacement(id, u)
            /\ Has(last.pre_ob, last.taker.market_id)
            /\ CancelOrder(id, u) ) =>
              /\ last'.result = "Ok"
              /\ order_storage'[last.taker.market_id] = last.pre
              /\ uuid_to_market' = last.pre_index
              /\ ob' = last.pre_ob
              /\ Snapshots(Eng')[last.taker.market_id] = SnapshotOf(last.pre) ]_vars

\* The owner has cancelled the order a placement had rested without a fill,
\* and other orders rest in the market.
C12_Witness ==
    /\ last.op = "cancel_order"
    /\ last.undoes
    /\ last.result = "Ok"
    /\ Held # {}

\* The order id x is in some order storage, the index, some underlying book
\* or some snapshot level.
RestsSomewhere(x) ==
    \/ Has(uuid_to_market, x)
    \/ \E m \in DOMAIN order_storage : Has(order_storage[m], x)
    \/ \E m \in DOMAIN ob : Has(ob[m], x)
    \/ \E m \in DOMAIN order_storage :
          Snapshots(Eng)[m] #
          Snapshots([order_storage |->
                        [k \in DOMAIN order_storage |->
                            [i \in (DOMAIN order_storage[k]) \ {x} |->
                                order_storage[k][i]]]])[m]

\* C13: after match_order followed by apply_trades for a Market taker, the
\* taker rests nowhere, whatever quantity remained unfilled.
C13_MarketNeverRests ==
    (last.op = "apply_trades" /\ last.taker.order_type = "Market")
        => ~RestsSomewhere(last.taker.id)

\* What the taker of the last placement had left after its matches.
Residual == last.taker.size - SumSizes(last.matches)

\* The order id x is in the order storage, the index and the underlying book
\* of market m.
RestsIn(x, m) ==
    /\ Has(order_storage, m) /\ Has(order_storage[m], x)
    /\ Has(uuid_to_market, x) /\ uuid_to_market[x] = m
    /\ Has(ob, m) /\ Has(ob[m], x)

\* C14: after a placement of a Limit taker its residual is in order storage,
\* index and underlying book iff residual >= min_size; a residual below
\* min_size rests nowhere; a rested residual has filled_size equal to the
\* quantity matched and status PartiallyFilled if anything was matched, else
\* Pending.
C14_LimitResidual ==
    (last.op = "apply_trades" /\ last.taker.order_type = "Limit") =>
        LET x == last.taker.id
            m == last.taker.market_id
        IN  /\ Residual >= MarketOf(m).min_size <=> RestsIn(x, m)
            /\ Residual < MarketOf(m).min_size => ~RestsSomewhere(x)
            /\ RestsIn(x, m) =>
                  /\ order_storage[m][x].filled_size = SumSizes(last.matches)
                  /\ order_storage[m][x].status =
                        (IF SumSizes(last.matches) > 0 THEN "PartiallyFilled"
                         ELSE "Pending")
                  /\ order_storage[m][x].price = last.taker.price
                  /\ order_storage[m][x].size = last.taker.size

\* A Limit taker was matched and its residual, at least min_size, rests.
C14_Witness ==
    /\ last.op = "apply_trades"
    /\ last.taker.order_type = "Limit"
    /\ SumSizes(last.matches) > 0
    /\ Residual >= MarketOf(last.taker.market_id).min_size
    /\ RestsIn(last.taker.id, last.taker.market_id)

\* A Limit taker was matched and its residual, below min_size, was dropped.
C14_Dropped ==
    /\ last.op = "apply_trades"
    /\ last.taker.order_type = "Limit"
    /\ Residual > 0
    /\ Residual < MarketOf(last.taker.market_id).min_size

\* The orders of market m resting at the side and price of order o.
LevelOf(m, o) ==
    { i \in DOMAIN order_storage[m] :
        /\ order_storage[m][i].side = o.side
        /\ order_storage[m][i].price = o.price }

\* C15: a maker that a taker filled only in part still rests at its price,
\* has status PartiallyFilled and a filled_size grown by the size traded
\* against it, and when it is alone at its price the snapshot shows the level
\* with size - filled_size.
C15_PartialFillOfMaker ==
    Matched =>
        \A i \in 1..Len(last.matches) :
            LET b == last.matches[i].maker_order
                m == last.taker.market_id
            IN  last.matches[i].size < Remaining(b) =>
                  /\ RestsIn(b.id, m)
                  /\ order_storage[m][b.id].price = b.price
                  /\ order_storage[m][b.id].status = "PartiallyFilled"
                  /\ order_storage[m][b.id].filled_size =
                        b.filled_size + last.matches[i].size
                  /\ LevelOf(m, b) = {b.id} =>
                        [price |-> b.price,
                         size |-> b.size - (b.filled_size + last.matches[i].size)]
                        \in snapshot_levels(Eng, m, b.side)

\* The status the taker of the last placement ends with: the one of its
\* resting remainder if it rests, else the one Executor::execute wrote.
FinalTakerStatus ==
    IF get_order(Eng, last.taker.id) # NoOrder
    THEN get_order(Eng, last.taker.id).status
    ELSE taker_status(last.taker, last.matches)

\* C16: a Market taker with quantity left after its placement ends Filled if
\* it had a fill and Cancelled if it had none.
C16_MarketTakerStatus ==
    ( /\ last.op = "apply_trades"
      /\ last.taker.order_type = "Market"
      /\ Residual > 0 ) =>
        /\ taker_status(last.taker, last.matches) =
              (IF SumSizes(last.matches) > 0 THEN "Filled" ELSE "Cancelled")
        /\ FinalTakerStatus =
              (IF SumSizes(last.matches) > 0 THEN "Filled" ELSE "Cancelled")

\* C17: every order in a market's order storage has size > filled_size, every
\* level of a snapshot has size > 0, and at the price of every level an order
\* of that side rests.
C17_LevelNonEmpty ==
    /\ \A o \in Held : o.size > o.filled_size
    /\ \A m \in DOMAIN order_storage : \A side \in Sides :
          \A l \in snapshot_levels(Eng, m, side) :
              /\ l.size > 0
              /\ \E o \in Held : /\ o.market_id = m /\ o.side = side
                                 /\ o.price = l.price
                                 /\ o.size > o.filled_size

\* add_order was given an order with nothing left and stored nothing, after a
\* fill had completed an order, while another order rests.
C17_Witness ==
    /\ last.op = "add_order"
    /\ ~RestsSomewhere(last.taker.id)
    /\ \E x \in DOMAIN terminal : terminal[x] = "Filled"
    /\ Held # {}

\* The prices of the levels of one side of market m's snapshot.
LevelPrices(m, side) == { l.price : l \in snapshot_levels(Eng, m, side) }

\* bids[0].price of the snapshot: the highest bid.
best_bid(m) ==
    CHOOSE p \in LevelPrices(m, "Buy") : \A q \in LevelPrices(m, "Buy") : p >= q

\* asks[0].price of the snapshot: the lowest ask.
best_ask(m) ==
    CHOOSE p \in LevelPrices(m, "Sell") : \A q \in LevelPrices(m, "Sell") : p <= q

\* C18: after every placement and every cancel, a market with a resting bid
\* and a resting ask has best_bid < best_ask.
C18_Uncrossed ==
    Settled =>
        \A m \in DOMAIN order_storage :
            (LevelPrices(m, "Buy") # {} /\ LevelPrices(m, "Sell") # {})
                => best_bid(m) < best_ask(m)

\* The markets in whose order storage or underlying book the id x rests.
MarketsOf(x) ==
    { m \in DOMAIN order_storage : Has(order_storage[m], x) }
    \cup { m \in DOMAIN ob : Has(ob[m], x) }

Acceptable(o) ==
    /\ Has(market_configs, o.market_id)
    /\ o.price % MarketOf(o.market_id).tick_size = 0
    /\ o.size % MarketOf(o.market_id).lot_size = 0
    /\ o.size >= MarketOf(o.market_id).min_size

\* C20: an order whose market was never initialised, whose price is not a
\* multiple of tick_size, whose size is not a multiple of lot_size or whose
\* size is below min_size is rejected: neither add_order nor a placement
\* (match_order, then apply_trades) of it changes the set of markets, the
\* resting orders or uuid_to_market.
C20_PlacementValidation ==
    [][ /\ \A o \in AnyOrders(nextId, "A") :
            (~Acceptable(o) /\ (AddOrder(o) \/ MatchOrder(o)))
                => UNCHANGED adapter
        /\ (ApplyTrades /\ ~Acceptable(last.taker)) => UNCHANGED adapter ]_vars

\* The event a cancel of order `id` of `user` in `market_id` is to send.
OrderCancelledEvent(id, user, market_id) ==
    [type |-> "OrderCancelled", order_id |-> id, user_address |-> user,
     market_id |-> market_id]

\* C21: a successful cancel_order sends exactly one OrderCancelled event with
\* the order's id, user and market, a failed one sends none, and
\* cancel_all_orders sends one such event for each order it removed.
C21_CancelEmits ==
    [][ /\ \A id \in 1..MaxOrders : \A u \in Users :
            CancelOrder(id, u) =>
                events' = IF last'.result = "Ok"
                          THEN <<OrderCancelledEvent(id, u, uuid_to_market[id])>>
                          ELSE <<>>
        /\ \A u \in Users : \A scope \in {"None", "A"} :
            CancelAllOrders(u, scope) =>
                Len(events') = Cardinality(DOMAIN uuid_to_market)
                               - Cardinality(DOMAIN uuid_to_market') ]_vars

\* The markets cancel_all_orders(user, scope) scans.
Scanned(scope) == IF scope = "None" THEN DOMAIN order_storage ELSE {scope}

\* The orders of `user` resting in the markets of `scanned`.
OrdersOf(user, scanned) ==
    { o \in UNION { { order_storage[m][i] : i \in DOMAIN order_storage[m] } :
                      m \in DOMAIN order_storage } :
        o.user_address = user /\ o.market_id \in scanned }

\* C22: cancel_all_orders(user, scope) returns exactly the orders of that user
\* resting in the scanned markets and removes them from the order storage, the
\* book and uuid_to_market; every other order stays as it was, in storage,
\* book and index, and no market appears or disappears.  A scope naming a
\* market without a book removes nothing.
C22_CancelAllExact ==
    [][ \A u \in Users : \A scope \in {"None"} \cup Markets :
          CancelAllOrders(u, scope) =>
            /\ cancelled_orders(Eng, u, Scanned(scope)) = OrdersOf(u, Scanned(scope))
            /\ DOMAIN order_storage' = DOMAIN order_storage
            /\ UNCHANGED <<books, market_configs>>
            /\ \A m \in DOMAIN order_storage :
                 /\ DOMAIN order_storage'[m] \subseteq DOMAIN order_storage[m]
                 /\ \A i \in DOMAIN order_storage[m] :
                      IF order_storage[m][i] \in OrdersOf(u, Scanned(scope))
                      THEN /\ ~Has(order_storage'[m], i)
                           /\ ~Has(ob'[m], i)
                           /\ ~Has(uuid_to_market', i)
                      ELSE /\ Has(order_storage'[m], i)
                           /\ order_storage'[m][i] = order_storage[m][i]
                           /\ Has(ob'[m], i) /\ ob'[m][i] = ob[m][i]
                           /\ Has(uuid_to_market', i)
                           /\ uuid_to_market'[i] = uuid_to_market[i]
            /\ (scope \notin {"None"} \cup DOMAIN order_storage) => UNCHANGED adapter ]_vars

\* A cancel_all_orders scoped to one market has removed an order there while
\* orders rest on in both markets.
C22_Witness ==
    /\ last.op = "cancel_all_orders"
    /\ \E x \in DOMAIN last.pre_index :
         last.pre_index[x] = "A" /\ ~Has(uuid_to_market, x)
    /\ \E x \in DOMAIN uuid_to_market : uuid_to_market[x] = "A"
    /\ \E x \in DOMAIN uuid_to_market : uuid_to_market[x] = "B"

\* The step leaves every market other than m as it was: its book, its
\* configuration, its resting orders and their index entries.
OtherMarketsKept(m) ==
    \A m2 \in Markets \ {m} :
        /\ (m2 \in books') <=> (m2 \in books)
        /\ Has(market_configs', m2) <=> Has(market_configs, m2)
        /\ Has(market_configs, m2) => market_configs'[m2] = market_configs[m2]
        /\ Has(order_storage', m2) <=> Has(order_storage, m2)
        /\ Has(order_storage, m2) => order_storage'[m2] = order_storage[m2]
        /\ Has(ob', m2) <=> Has(ob, m2)
        /\ Has(ob, m2) => ob'[m2] = ob[m2]
        /\ \A x \in 1..MaxOrders :
             (Has(uuid_to_market, x) /\ uuid_to_market[x] = m2)
                => (Has(uuid_to_market', x) /\ uuid_to_market'[x] = m2)

\* The market a cancel_order(id, ..) works in ("" when the id is not indexed).
CancelMarket(id) == IF Has(uuid_to_market, id) THEN uuid_to_market[id] ELSE ""

\* Every step of a call on one market leaves the other markets as they were.
C23_Step ==
    /\ \A m \in Markets : \A o \in FewOrders(nextId, m) :
          (AddOrder(o) \/ MatchOrder(o)) => OtherMarketsKept(m)
    /\ ApplyTrades => OtherMarketsKept(last.taker.market_id)
    /\ \A id \in 1..MaxOrders : \A u \in Users :
          CancelOrder(id, u) => OtherMarketsKept(CancelMarket(id))
    /\ \A u \in Users : \A m \in Markets :
          CancelAllOrders(u, m) => OtherMarketsKept(m)

\* match_order returns makers of the taker's market only, and a taker that
\* found no opposite order in its own market has no match and, once placed,
\* rests Pending, whatever rests in the other market.
C23_OwnMarketOnly ==
    Matched =>
        /\ \A k \in DOMAIN last.matches : last.matches[k].maker_order.market_id
                                = last.taker.market_id
        /\ (OppositeOrders(last.pre, last.taker) = {}
            /\ last.op = "apply_trades") =>
               /\ last.matches = <<>>
               /\ get_order(Eng, last.taker.id) # NoOrder
               /\ get_order(Eng, last.taker.id).status = "Pending"
               /\ get_order(Eng, last.taker.id).filled_size = 0

\* C23: add_order, match_order, apply_trades and the cancels on one market
\* never fill, return, remove or modify an order resting in another market; a
\* taker whose price crosses only the other market's book has no trade and
\* rests Pending.
C23_CrossMarketIsolation == []C23_OwnMarketOnly /\ [][C23_Step]_vars

\* A Sell placed in market A at a price that a Buy resting in market B would
\* pay, with no Buy in A, has rested without a trade.
C23_Witness ==
    /\ last.op = "apply_trades"
    /\ last.taker.market_id = "A"
    /\ last.taker.side = "Sell"
    /\ OppositeOrders(last.pre, last.taker) = {}
    /\ Has(order_storage, "B")
    /\ \E i \in DOMAIN order_storage["B"] :
          /\ order_storage["B"][i].side = "Buy"
          /\ order_storage["B"][i].price >= last.taker.price
    /\ get_order(Eng, last.taker.id) # NoOrder

\* The markets the concurrent calls were issued for.
TaskMarkets == { tasks[t].order.market_id : t \in DOMAIN tasks }

\* C24: when concurrent add_order calls with distinct ids, spread over some
\* markets and initialising them on demand, have all returned, exactly those
\* markets exist and every order rests in its market's order storage and
\* book and is indexed in uuid_to_market.
C24_NoLostAdds ==
    AllDone =>
        /\ DOMAIN order_storage = TaskMarkets
        /\ books = TaskMarkets
        /\ DOMAIN market_configs = TaskMarkets
        /\ \A t \in DOMAIN tasks :
             LET o == tasks[t].order IN
             /\ Has(order_storage[o.market_id], o.id)
             /\ order_storage[o.market_id][o.id] = o
             /\ Has(ob[o.market_id], o.id)
             /\ Has(uuid_to_market, o.id)
             /\ uuid_to_market[o.id] = o.market_id
        /\ DOMAIN uuid_to_market = DOMAIN tasks

\* All calls have returned; both markets were used and two calls shared one.
C24_Witness ==
    /\ AllDone
    /\ TaskMarkets = Markets
    /\ \E t1, t2 \in DOMAIN tasks :
          t1 # t2 /\ tasks[t1].order.market_id = tasks[t2].order.market_id

\* C25: init_market for a market that is already initialised, with or
\* without orders resting in it, leaves the books, the resting orders,
\* uuid_to_market and the market's tick/lot configuration as they were, and
\* sends nothing.
C25_InitMarketIdempotent ==
    [][ \A m \in Markets :
          (Has(market_configs, m) /\ InitMarket(m)) =>
              /\ UNCHANGED adapter
              /\ events' = <<>> ]_vars

\* init_market has been called for market A while orders of both sides
\* rested in it.
C25_Witness ==
    /\ last.op = "init_market"
    /\ Has(order_storage, "A")
    /\ \E i, j \in DOMAIN order_storage["A"] :
          order_storage["A"][i].side = "Buy" /\ order_storage["A"][j].side = "Sell"

\* The orders of one side resting in market m at price p.
RestingAt(m, side, p) ==
    { o \in Held : o.market_id = m /\ o.side = side /\ o.price = p }

\* The sum of size - filled_size over a set of orders.
RECURSIVE OpenSize(_)
OpenSize(orders) ==
    IF orders = {} THEN 0
    ELSE LET o == CHOOSE x \in orders : TRUE
         IN  (o.size - o.filled_size) + OpenSize(orders \ {o})

\* One side of a snapshot describes the resting orders of that side of market
\* m: a level for every price with a resting order and no other, each with
\* the open size resting at its price, best price first.
DescribesSide(levels, m, side) ==
    /\ \A k \in DOMAIN levels :
          /\ RestingAt(m, side, levels[k].price) # {}
          /\ levels[k].size = OpenSize(RestingAt(m, side, levels[k].price))
    /\ \A o \in Held : (o.market_id = m /\ o.side = side)
          => \E k \in DOMAIN levels : levels[k].price = o.price
    /\ \A j, k \in DOMAIN levels :
          j < k => IF side = "Buy" THEN levels[j].price > levels[k].price
                   ELSE levels[j].price < levels[k].price

\* In every state, the snapshot of every market describes its resting orders.
C26_Describes ==
    \A m \in Markets :
        /\ snapshot_for_market(Eng, m).market_id = m
        /\ DescribesSide(snapshot_for_market(Eng, m).bids, m, "Buy")
        /\ DescribesSide(snapshot_for_market(Eng, m).asks, m, "Sell")

\* C26: snapshot_for_market returns, on each side, exactly one level per
\* price at which an order rests, its size the sum of size - filled_size of
\* the orders resting there, bids in strictly descending and asks in strictly
\* ascending price order, and the call changes nothing in the adapter.
C26_PlainSnapshot ==
    /\ []C26_Describes
    /\ [][ \A m \in Markets : SnapshotForMarket(m) =>
              /\ UNCHANGED adapter
              /\ UNCHANGED terminal
              /\ last'.result = snapshot_for_market(Eng', m) ]_vars

\* A snapshot has been returned with a bid level that sums the open sizes of
\* two orders, one of them partly filled.
C26_Witness ==
    /\ last.op = "snapshot_for_market"
    /\ \E k \in DOMAIN last.result.bids :
          /\ Cardinality(RestingAt(last.target, "Buy", last.result.bids[k].price)) = 2
          /\ \E o \in RestingAt(last.target, "Buy", last.result.bids[k].price) :
                o.filled_size > 0

\* The sum of the sizes of the levels of one side of a snapshot.
RECURSIVE LevelsTotal(_)
LevelsTotal(levels) ==
    IF levels = <<>> THEN 0
    ELSE Head(levels).size + LevelsTotal(Tail(levels))

\* C27: in the enriched snapshot of every market, bid_depth equals the total
\* size of the bid levels of that snapshot and ask_depth the total size of its
\* ask levels.
C27_DepthAgrees ==
    \A m \in DOMAIN order_storage :
        (Has(ob, m) /\ Has(market_configs, m)) =>
            /\ enriched_depth(Eng, m, "Buy")
                 = LevelsTotal(snapshot_for_market(Eng, m).bids)
            /\ enriched_depth(Eng, m, "Sell")
                 = LevelsTotal(snapshot_for_market(Eng, m).asks)

\* C28: the TradeExecuted events one match_order call sends are one per
\* returned match and in the order of the matches: the k-th event names the
\* maker, the size and the price of the k-th match, so that no event names a
\* maker that was ahead of the maker of an earlier event.
C28_EventsFollowMatches ==
    last.op = "match_order" =>
        /\ Len(events) = Len(last.matches)
        /\ \A k \in DOMAIN events :
              /\ events[k].type = "TradeExecuted"
              /\ EventMakerId(events[k]) = last.matches[k].maker_order.id
              /\ events[k].trade.size = last.matches[k].size
              /\ events[k].trade.price = last.matches[k].price
              /\ events[k].trade.market_id = last.taker.market_id
        /\ \A j, k \in DOMAIN events :
              j < k => ~Ahead(last.taker.side,
                              last.pre[EventMakerId(events[k])],
                              last.pre[EventMakerId(events[j])])

\* One match_order has sent two events, for makers at different prices.
C28_Witness ==
    /\ last.op = "match_order"
    /\ Len(events) = 2
    /\ events[1].trade.price # events[2].trade.price

\* The taker a trade event names.
EventTakerId(ev) ==
    IF ev.trade.side = "Buy" THEN ev.trade.buyer_order_id
    ELSE ev.trade.seller_order_id

\* C29: on the event channel the trades of one placement on a market stand
\* together: between two trades of one taker there is no trade of another
\* taker, also when the placements are issued concurrently.
C29_EventsNotInterleaved ==
    \A i, j, k \in DOMAIN events :
        (i < j /\ j < k /\ EventTakerId(events[i]) = EventTakerId(events[k]))
            => EventTakerId(events[j]) = EventTakerId(events[i])

\* The adapter as it would be with a sender whose subscriber keeps up.
Listened == [Eng EXCEPT !.event_tx = TRUE, !.port = "receiver"]

\* C30: whatever the event port is (no sender, no receiver, a lagging
\* subscriber), match_order returns the matches and leaves the books, the
\* order storage and the index that it returns and leaves when a subscriber
\* receives every event.
C30_PortDoesNotMatter ==
    [][ \A o \in FewOrders(nextId, "A") :
          MatchOrder(o) =>
            \E arr \in Arrangements(Listened, MarketOf("A"), o) :
              LET ms == compute_matches(Listened, MarketOf("A"), o, arr)
                  e == match_order(Listened, MarketOf("A"), o, ms)
              IN  /\ last'.matches = ms
                  /\ order_storage' = e.order_storage
                  /\ uuid_to_market' = e.uuid_to_market
                  /\ ob' = e.ob
                  /\ books' = e.books
                  /\ market_configs' = e.market_configs
                  /\ terminal' = e.terminal ]_vars

\* A match_order with two matches has returned although the channel had no
\* receiver: both makers are filled, nothing was delivered.
C30_Witness ==
    /\ last.op = "match_order"
    /\ Len(last.matches) = 2
    /\ event_tx
    /\ port = "no_receiver"
    /\ events = <<>>
    /\ \A k \in DOMAIN last.matches :
          Has(last.written, last.matches[k].maker_order.id)

\* The order of the given side among the taker and the maker of a match.
SideOrder(side, taker_order, maker_order) ==
    CHOOSE o \in {taker_order, maker_order} : o.side = side

\* The trade names the Buy-side order as buyer and the Sell-side order as
\* seller, in the taker's market.
RightParties(trade, taker_order, maker_order) ==
    /\ maker_order.side # taker_order.side
    /\ trade.buyer_order_id = SideOrder("Buy", taker_order, maker_order).id
    /\ trade.buyer_address = SideOrder("Buy", taker_order, maker_order).user_address
    /\ trade.seller_order_id = SideOrder("Sell", taker_order, maker_order).id
    /\ trade.seller_address = SideOrder("Sell", taker_order, maker_order).user_address
    /\ trade.market_id = taker_order.market_id

\* C31: in every trade, of the TradeExecuted events of match_order as of the
\* trades of Executor::execute, buyer address and buyer order id are those of
\* the Buy-side order, seller address and seller order id those of the
\* Sell-side order, the market id is the placement's market, and the side of
\* an event's trade is the taker's side.
C31_TradeParties ==
    Matched =>
        /\ \A k \in DOMAIN last.matches :
              RightParties(TradesOf(last.taker, last.matches)[k],
                           last.taker, last.matches[k].maker_order)
        /\ last.op = "match_order" =>
              /\ Len(events) = Len(last.matches)
              /\ \A k \in DOMAIN events :
                    /\ RightParties(events[k].trade, last.taker,
                                    last.matches[k].maker_order)
                    /\ events[k].trade.side = last.taker.side

\* A Sell taker has traded with a maker of another user: the maker is the
\* buyer.
C31_Witness ==
    /\ last.op = "match_order"
    /\ last.taker.side = "Sell"
    /\ Len(events) >= 1
    /\ events[1].trade.buyer_order_id = last.matches[1].maker_order.id
    /\ events[1].trade.buyer_address # events[1].trade.seller_address

(* ---------------------------------------------------------------------- *)
(* The converter alone                                                     *)
(* ---------------------------------------------------------------------- *)
\* The 128-bit amounts callers hold, at the model's width: twice U64Bits.
U128 == U64 * U64

\* A converter of one of the markets and an amount to convert: `pre` holds
\* the converter, `target` the amount, `result` what the last call returned.
InitConvert ==
    /\ InitEng(NewEng(TRUE))
    /\ nextId = 1
    /\ \E m \in Markets, amount \in 0..(U128 - 1) :
          last = [NoCall EXCEPT !.op = "converter", !.pre = MarketOf(m),
                                !.target = amount, !.result = amount]
    /\ tasks = <<>>
    /\ mgr = 0
    /\ cfg_guards = {}
    /\ st_guard = 0
    /\ base = NewEng(TRUE)

PriceToTicks ==
    /\ last.op = "converter"
    /\ last' = [last EXCEPT !.op = "price_to_ticks",
                            !.result = price_to_ticks(last.pre, last.target)]
    /\ UNCHANGED <<books, ob, market_configs, uuid_to_market, order_storage,
                   event_tx, port, events, nextId, terminal, conc>>

TicksToPrice ==
    /\ last.op = "price_to_ticks"
    /\ last' = [last EXCEPT !.op = "ticks_to_price",
                            !.result = ticks_to_price(last.pre, last.result)]
    /\ UNCHANGED <<books, ob, market_configs, uuid_to_market, order_storage,
                   event_tx, port, events, nextId, terminal, conc>>

SizeToLots ==
    /\ last.op = "converter"
    /\ last' = [last EXCEPT !.op = "size_to_lots",
                            !.result = size_to_lots(last.pre, last.target)]
    /\ UNCHANGED <<books, ob, market_configs, uuid_to_market, order_storage,
                   event_tx, port, events, nextId, terminal, conc>>

LotsToSize ==
    /\ last.op = "size_to_lots"
    /\ last' = [last EXCEPT !.op = "lots_to_size",
                            !.result = lots_to_size(last.pre, last.result)]
    /\ UNCHANGED <<books, ob, market_configs, uuid_to_market, order_storage,
                   event_tx, port, events, nextId, terminal, conc>>

NextConvert ==
    \/ PriceToTicks
    \/ TicksToPrice
    \/ SizeToLots
    \/ LotsToSize

SpecConvert == InitConvert /\ [][NextConvert]_vars

\* C32: a price that is a multiple of tick_size comes back unchanged from
\* price_to_ticks followed by ticks_to_price, and a size that is a multiple
\* of lot_size from size_to_lots followed by lots_to_size, for every amount
\* of the 128-bit domain.
C32_ExactRoundTrip ==
    /\ (last.op = "ticks_to_price" /\ last.target % last.pre.tick_size = 0)
           => last.result = last.target
    /\ (last.op = "lots_to_size" /\ last.target % last.pre.lot_size = 0)
           => last.result = last.target

\* The taker's own resting orders of the opposite side inside its limit.
OwnMakers ==
    { b \in Makers : /\ b.user_address = last.taker.user_address
                     /\ PassesGate(last.taker, b) }

\* C33: an own resting order the matching loop meets inside the taker's
\* limit is skipped, not traded and not a stop: it stays in the storage as it
\* was, every other user's maker behind it inside the limit is matched unless
\* the taker is used up, and when nothing was matched the limit taker rests
\* in full beside it after apply_trades.
C33_SelfTradeSkipped ==
    Matched =>
        \A own \in OwnMakers :
            /\ ~Has(last.written, own.id)
            /\ Has(order_storage[own.market_id], own.id)
            /\ order_storage[own.market_id][own.id] = own
            /\ \A b \in Makers :
                  (/\ b.user_address # last.taker.user_address
                   /\ PassesGate(last.taker, b)
                   /\ Ahead(last.taker.side, own, b))
                  => \/ \E k \in DOMAIN last.matches :
                           last.matches[k].maker_order.id = b.id
                     \/ SumSizes(last.matches) = last.taker.size
            /\ (/\ last.op = "apply_trades"
                /\ last.matches = <<>>
                /\ last.taker.order_type = "Limit")
               => /\ Has(order_storage[own.market_id], last.taker.id)
                  /\ order_storage[own.market_id][last.taker.id].filled_size = 0
                  /\ Has(ob[own.market_id], last.taker.id)
                  /\ Has(ob[own.market_id], own.id)

\* The loop went past an own order and traded with another user's maker
\* behind it.
C33_Witness ==
    /\ last.op = "match_order"
    /\ \E own \in OwnMakers : \E k \in DOMAIN last.matches :
          /\ Ahead(last.taker.side, own, last.matches[k].maker_order)
          /\ order_storage[own.market_id][own.id] = own

\* C34: concurrent calls never block one another for good: as long as a call
\* that was issued has not returned, some call can take its next step (none
\* waits for the manager lock while its holder waits for a map guard that
\* the waiting call holds).
C34_NoCallStuck ==
    (tasks # <<>> /\ ~AllDone) => ENABLED NextConc

\* C35: within a price level makers are matched in the order they were added
\* (ids are handed out in that order), whatever created_at they carry: a
\* match against a maker comes after the matches against every maker of
\* another user that was added to its price before it.
C35_ArrivalOrderFIFO ==
    Matched =>
        \A k \in DOMAIN last.matches : \A b \in Makers :
            (/\ b.price = last.matches[k].maker_order.price
             /\ b.id < last.matches[k].maker_order.id
             /\ b.user_address # last.taker.user_address)
            => \E j \in 1..(k - 1) : last.matches[j].maker_order.id = b.id

\* C36: makers with the same price and the same created_at are matched in the
\* order of their ids: a match against a maker comes after the matches
\* against every maker of another user with its price, its created_at and a
\* smaller id.
C36_TieBreakById ==
    Matched =>
        \A k \in DOMAIN last.matches : \A b \in Makers :
            (/\ b.price = last.matches[k].maker_order.price
             /\ b.created_at = last.matches[k].maker_order.created_at
             /\ b.id < last.matches[k].maker_order.id
             /\ b.user_address # last.taker.user_address)
            => \E j \in 1..(k - 1) : last.matches[j].maker_order.id = b.id

\* The size matched against maker id in the matches the calls have returned.
MatchedAgainst(id) ==
    LET against(t) == IF tasks[t].pc = "done"
                      THEN SelectSeq(tasks[t].result,
                                     LAMBDA m : m.maker_order.id = id)
                      ELSE <<>>
        RECURSIVE total(_)
        total(T) == IF T = {} THEN 0
                    ELSE LET t == CHOOSE x \in T : TRUE
                         IN  SumSizes(against(t)) + total(T \ {t})
    IN  total(DOMAIN tasks)

\* The size traded against maker id in the events sent.
SentAgainst(id) ==
    LET sel == SelectSeq(events, LAMBDA ev : EventMakerId(ev) = id)
    IN  SumSizes([k \in DOMAIN sel |-> sel[k].trade])

\* C37: concurrent match_order calls on one market never trade more against a
\* maker than its size, neither in the matches they return nor in the
\* TradeExecuted events they send.
C37_NoOverfill ==
    tasks # <<>> =>
        \A id \in DOMAIN base.order_storage[TheMarket.id] :
            /\ MatchedAgainst(id) <= base.order_storage[TheMarket.id][id].size
            /\ SentAgainst(id) <= base.order_storage[TheMarket.id][id].size

\* The ids of the orders a cancel call has returned as cancelled.
CancelledBy(c) ==
    IF tasks[c].pc # "done" THEN {}
    ELSE IF tasks[c].op = "cancel_order"
    THEN (IF tasks[c].result.status = "Ok" THEN {tasks[c].result.order.id}
          ELSE {})
    ELSE IF tasks[c].op = "cancel_all_orders"
    THEN { o.id : o \in tasks[c].result }
    ELSE {}

\* C38: once a cancel_order or cancel_all_orders has returned an order as
\* cancelled, no match_order returns a match and no TradeExecuted event is
\* sent that names the order as maker.
C38_NoTradeAfterCancel ==
    [][\A c \in DOMAIN tasks : \A x \in CancelledBy(c) :
          /\ \A t \in DOMAIN tasks :
                (/\ tasks[t].op = "match_order"
                 /\ tasks[t].pc # "done"
                 /\ tasks'[t].pc = "done")
                => \A k \in DOMAIN tasks'[t].result :
                      tasks'[t].result[k].maker_order.id # x
          /\ \A k \in (Len(events) + 1)..Len(events') :
                EventMakerId(events'[k]) # x]_vars

\* C39: once the concurrent calls have all returned, the OrderBook-rs book of
\* every market holds the ids its order storage holds, no more and no fewer.
C39_BookMirrorsStorage ==
    AllDone =>
        \A m \in DOMAIN order_storage :
            Has(ob, m) /\ DOMAIN ob[m] = DOMAIN order_storage[m]

\* A bid and an ask of one market that cross.
Crossing(bid, ask) ==
    /\ bid.side = "Buy"
    /\ ask.side = "Sell"
    /\ bid.market_id = ask.market_id
    /\ bid.price >= ask.price

\* C40: after placements (match_order, then apply_trades) and cancels run one
\* after the other from empty books, a resting bid and a resting ask of one
\* market cross only when both belong to one user.
C40_CrossingWithinUser ==
    Settled =>
        \A bid, ask \in Held :
            Crossing(bid, ask) => bid.user_address = ask.user_address

\* A placement skipped the taker's own order and rested across it, beside an
\* order of another user.
C40_Witness ==
    /\ last.op = "apply_trades"
    /\ \E bid, ask \in Held :
          /\ Crossing(bid, ask)
          /\ last.taker.id \in {bid.id, ask.id}
    /\ \E o, x \in Held : o.user_address # x.user_address

====
